---- MODULE Spec2Model ----
(***************************************************************************)
(* The dental-aligner workflow engine of prod_workflow.py                  *)
(* (dental_aligner_workflow and its handlers) as a state machine.          *)
(*                                                                         *)
(* Representation of the Python values:                                    *)
(*  - a dict is a function from its keys (strings) to values; {} is the    *)
(*    function with the empty domain;                                      *)
(*  - an Optional[dict] argument is NoneDict (Python None) or Some(d);     *)
(*  - identifiers, statuses, stages and patient names are only compared    *)
(*    for equality by the code and are strings, with Python None written   *)
(*    None;                                                                *)
(*  - texts the code lowers, strips or searches (the oracle's answer, the  *)
(*    message body, delivery_status) are sequences of characters;          *)
(*  - a message's content (an f-string) is the sequence of its literal     *)
(*    pieces and of the interpolated values.                               *)
(***************************************************************************)
EXTENDS Integers, Sequences, FiniteSets, TLC

\* ------------------------------------------------------------------------
\* Bounds of the model
\* ------------------------------------------------------------------------

\* time.time() returns a second in 1..MaxNow
MaxNow == 2

\* the Case store of an orchestrator holds at most MaxCases Cases
MaxCases == 1

\* ------------------------------------------------------------------------
\* Python values
\* ------------------------------------------------------------------------

None == "<None>"

NoneText == <<"<None>">>

EmptyDict == <<>>

NoneDict == <<>>

Some(d) == <<d>>

\* dict.get(k, default)
Get(d, k, default) == IF k \in DOMAIN d THEN d[k] ELSE default

\* d[k] = v
Put(d, k, v) == [x \in (DOMAIN d) \cup {k} |-> IF x = k THEN v ELSE d[x]]

\* truth value of a dict: a non-empty dict is true
TruthyDict(d) == DOMAIN d # {}

\* truth value of an Optional[str] identifier: None and "" are false
TruthyId(s) == s # None /\ s # ""

\* TruthyText with an `is not None` test in place of the truth value: the
\* defect C4 detects
TruthyText_NoneOnly(t) == t # NoneText

\* truth value of an Optional[str] text: None and "" are false
TruthyText(t) == t # NoneText /\ t # <<>>

\* str(v) inside an f-string
Str(v) == IF v = None THEN "None" ELSE v

\* ------------------------------------------------------------------------
\* str.lower, str.strip, the `in` operator on strings
\* ------------------------------------------------------------------------

\* the lower-case letter of every upper-case letter
ToLower ==
    [A |-> "a", B |-> "b", C |-> "c", D |-> "d", E |-> "e", F |-> "f", G |->
     "g", H |-> "h", I |-> "i", J |-> "j", K |-> "k", L |-> "l", M |-> "m",
     N |-> "n", O |-> "o", P |-> "p", Q |-> "q", R |-> "r", S |-> "s", T |->
     "t", U |-> "u", V |-> "v", W |-> "w", X |-> "x", Y |-> "y", Z |-> "z"]

LowerChar(c) == IF c \in DOMAIN ToLower THEN ToLower[c] ELSE c

RECURSIVE Lower(_)
Lower(t) == IF t = <<>> THEN <<>> ELSE <<LowerChar(Head(t))>> \o Lower(Tail(t))

Whitespace == {" ", "\n", "\t", "\r"}

RECURSIVE LStrip(_)
LStrip(t) == IF t # <<>> /\ Head(t) \in Whitespace THEN LStrip(Tail(t)) ELSE t

RECURSIVE RStrip(_)
RStrip(t) ==
    IF t # <<>> /\ t[Len(t)] \in Whitespace THEN RStrip(SubSeq(t, 1, Len(t) - 1)) ELSE t

Strip(t) == RStrip(LStrip(t))

\* Contains with == in place of `in`: the defect C7 detects
Contains_equal(hay, needle) == hay = needle

\* needle in hay (h names the value of hay, so that it is computed once)
Contains(hay, needle) ==
    \E h \in {hay} :
        \E i \in 0..(Len(h) - Len(needle)) : SubSeq(h, i + 1, i + Len(needle)) = needle

\* ------------------------------------------------------------------------
\* Texts
\* ------------------------------------------------------------------------

TxtYes == <<"Y", "e", "s">>
TxtNo == <<"N", "o">>
TxtUnknown == <<"U", "n", "k", "n", "o", "w", "n">>
TxtYesUpper == <<"Y", "E", "S">>
TxtUnknownUpper == <<"U", "N", "K", "N", "O", "W", "N">>
TxtYesPadded == <<" ", "Y", "e", "s", "\n">>
TxtYesVerbose == <<"I", " ", "t", "h", "i", "n", "k", " ", "y", "e", "s", ",", " ",
                   "d", "e", "f", "i", "n", "i", "t", "e", "l", "y">>
TxtMaybe == <<"m", "a", "y", "b", "e">>
TxtNotYes == <<"N", "o", "t", " ", "y", "e", "s">>
TxtPhaseWise == <<"P", "h", "a", "s", "e", "W", "i", "s", "e">>
TxtFullCase == <<"F", "u", "l", "l", "C", "a", "s", "e">>
TxtPhaseHyphen == <<"P", "h", "a", "s", "e", "-", "W", "i", "s", "e">>
TxtBothChoices == <<"P", "h", "a", "s", "e", "W", "i", "s", "e", " ", "o", "r", " ",
                    "F", "u", "l", "l", "C", "a", "s", "e">>
TxtInTransit == <<"I", "n", " ", "T", "r", "a", "n", "s", "i", "t">>
TxtDelivered == <<"D", "e", "l", "i", "v", "e", "r", "e", "d">>
TxtDeliveredUpper == <<"D", "E", "L", "I", "V", "E", "R", "E", "D">>
TxtInfoNA == <<"I", "n", "f", "o", " ", "n", "o", "t", " ", "a", "v", "a", "i", "l",
               "a", "b", "l", "e">>
TxtHello == <<"h", "e", "l", "l", "o">>
TxtAnyUpdate == <<"a", "n", "y", " ", "u", "p", "d", "a", "t", "e", "?">>
TxtHiStatus == <<"H", "i", ",", " ", "s", "t", "a", "t", "u", "s", "?">>
TxtDeliveryUpdate == <<"d", "e", "l", "i", "v", "e", "r", "y", " ", "u", "p", "d", "a", "t", "e">>
TxtHelpTracking == <<"h", "e", "l", "p", " ", "t", "r", "a", "c", "k", "i", "n", "g">>
TxtSupport == <<"s", "u", "p", "p", "o", "r", "t">>
TxtThanks == <<"t", "h", "a", "n", "k", "s">>

TxtNotStarted ==
    <<"N", "o", "t", " ", "S", "t", "a", "r", "t", "e", "d">>
TxtHasBeenDelivered ==
    <<"H", "a", "s", " ", "t", "h", "e", " ", "a", "l", "i", "g", "n", "e", "r", " ",
      "b", "e", "e", "n", " ", "d", "e", "l", "i", "v", "e", "r", "e", "d", "?">>
TxtYesFitsPerfectly ==
    <<"Y", "e", "s", ",", " ", "i", "t", " ", "f", "i", "t", "s", " ", "p", "e", "r",
      "f", "e", "c", "t", "l", "y", "!">>
TxtPreferPhaseWise ==
    <<"I", " ", "p", "r", "e", "f", "e", "r", " ", "p", "h", "a", "s", "e", "-", "w",
      "i", "s", "e", " ", "d", "e", "l", "i", "v", "e", "r", "y">>
TxtDeliveryStatus ==
    <<"D", "e", "l", "i", "v", "e", "r", "y", " ", "s", "t", "a", "t", "u", "s", "?">>
TxtYesFitsWell ==
    <<"Y", "e", "s", ",", " ", "f", "i", "t", "s", " ", "w", "e", "l", "l">>
TxtFullCasePlease ==
    <<"F", "u", "l", "l", " ", "c", "a", "s", "e", " ", "p", "l", "e", "a", "s", "e">>

kw_yes == <<"y", "e", "s">>
kw_no == <<"n", "o">>
kw_phasewise == <<"p", "h", "a", "s", "e", "w", "i", "s", "e">>
kw_fullcase == <<"f", "u", "l", "l", "c", "a", "s", "e">>
kw_delivered == <<"d", "e", "l", "i", "v", "e", "r", "e", "d">>

\* ------------------------------------------------------------------------
\* handle_production_start
\* ------------------------------------------------------------------------

\* what handle_production_start hands back: its return dict ("status", "error")
\* and the objects it was passed and mutated in place
ProdOutcome(status, error, case, msgs, nexts) ==
    [status |-> status, error |-> error, updated_case_data |-> case,
     messages_to_send |-> msgs, next_actions |-> nexts]

Message(recipient, content) == [recipient_id |-> recipient, content |-> content]

ErrEngine == "[ENGINE-ERROR] 'case_id' and 'current_case_data' must be provided for 'start_production' action."

\* status == "ApprovedForProduction"; t is the int(time.time()) the branch reads
\* start_planning going straight to AwaitingDelivery: the defect C30 detects
start_planning_skips(updated_case_data, messages_to_send, next_actions, t) ==
    LET user_id_from_case == Get(updated_case_data, "user_id", None)
        patient_name == Get(updated_case_data, "patient_name", "Unknown Patient")
    IN  ProdOutcome("Success", None,
            Put(Put(updated_case_data, "status", "AwaitingDelivery"),
                "planning_started_at", t),
            Append(messages_to_send, Message(user_id_from_case,
                <<"Dear Doctor, planning for patient '", Str(patient_name),
                  "' has started. We'll keep you updated on the progress.">>)),
            Append(next_actions, "schedule_training_aligner_production"))

\* status == "ApprovedForProduction"
start_planning(updated_case_data, messages_to_send, next_actions, t) ==
    LET user_id_from_case == Get(updated_case_data, "user_id", None)
        patient_name == Get(updated_case_data, "patient_name", "Unknown Patient")
    IN  ProdOutcome("Success", None,
            Put(Put(updated_case_data, "status", "CasePlanningComplete"),
                "planning_started_at", t),
            Append(messages_to_send, Message(user_id_from_case,
                <<"Dear Doctor, planning for patient '", Str(patient_name),
                  "' has started. We'll keep you updated on the progress.">>)),
            Append(next_actions, "schedule_training_aligner_production"))

\* dispatch_training_aligner without the delivery_status assignment: the defect
\* C2 detects
dispatch_training_aligner_no_transit(updated_case_data, messages_to_send, next_actions, t) ==
    LET user_id_from_case == Get(updated_case_data, "user_id", None)
        patient_name == Get(updated_case_data, "patient_name", "Unknown Patient")
    IN  ProdOutcome("Success", None,
            Put(Put(updated_case_data, "status", "AwaitingDelivery"), "dispatched_at", t),
            Append(messages_to_send, Message(user_id_from_case,
                <<"Dear Doctor,\n\nThe training aligner for patient '", Str(patient_name),
                  "' has been dispatched. Estimated delivery: 2-3 business days.\n\nWe will notify you upon delivery. You can also reply here for a status update.">>)),
            Append(next_actions, "track_delivery"))

\* dispatch_training_aligner sending the Case back to planning: the cycle C35
\* detects
dispatch_training_aligner_restarts(updated_case_data, messages_to_send, next_actions, t) ==
    LET user_id_from_case == Get(updated_case_data, "user_id", None)
        patient_name == Get(updated_case_data, "patient_name", "Unknown Patient")
    IN  ProdOutcome("Success", None,
            Put(Put(Put(updated_case_data, "status", "ApprovedForProduction"),
                    "delivery_status", TxtInTransit),
                "dispatched_at", t),
            Append(messages_to_send, Message(user_id_from_case,
                <<"Dear Doctor,\n\nThe training aligner for patient '", Str(patient_name),
                  "' has been dispatched. Estimated delivery: 2-3 business days.\n\nWe will notify you upon delivery. You can also reply here for a status update.">>)),
            Append(next_actions, "track_delivery"))

\* status == "CasePlanningComplete"
dispatch_training_aligner(updated_case_data, messages_to_send, next_actions, t) ==
    LET user_id_from_case == Get(updated_case_data, "user_id", None)
        patient_name == Get(updated_case_data, "patient_name", "Unknown Patient")
    IN  ProdOutcome("Success", None,
            Put(Put(Put(updated_case_data, "status", "AwaitingDelivery"),
                    "delivery_status", TxtInTransit),
                "dispatched_at", t),
            Append(messages_to_send, Message(user_id_from_case,
                <<"Dear Doctor,\n\nThe training aligner for patient '", Str(patient_name),
                  "' has been dispatched. Estimated delivery: 2-3 business days.\n\nWe will notify you upon delivery. You can also reply here for a status update.">>)),
            Append(next_actions, "track_delivery"))

\* start_phase_production pointing back to AwaitingDelivery: the defect C18
\* detects
start_phase_production_backward(updated_case_data, messages_to_send, next_actions, t) ==
    LET user_id_from_case == Get(updated_case_data, "user_id", None)
        patient_name == Get(updated_case_data, "patient_name", "Unknown Patient")
    IN  ProdOutcome("Success", None,
            Put(Put(updated_case_data, "status", "AwaitingDelivery"),
                "phase_production_started", t),
            Append(messages_to_send, Message(user_id_from_case,
                <<"Thank you for confirming the fit! The first phase of aligners for '",
                  Str(patient_name),
                  "' is being prepared for dispatch. Expected delivery: 5-7 business days.">>)),
            Append(next_actions, "schedule_phase_production"))

\* status == "FitConfirmed_PhaseWise"
start_phase_production(updated_case_data, messages_to_send, next_actions, t) ==
    LET user_id_from_case == Get(updated_case_data, "user_id", None)
        patient_name == Get(updated_case_data, "patient_name", "Unknown Patient")
    IN  ProdOutcome("Success", None,
            Put(Put(updated_case_data, "status", "Dispatching_PhaseWise"),
                "phase_production_started", t),
            Append(messages_to_send, Message(user_id_from_case,
                <<"Thank you for confirming the fit! The first phase of aligners for '",
                  Str(patient_name),
                  "' is being prepared for dispatch. Expected delivery: 5-7 business days.">>)),
            Append(next_actions, "schedule_phase_production"))

\* status == "FitConfirmed_FullCase"
start_full_production(updated_case_data, messages_to_send, next_actions, t) ==
    LET user_id_from_case == Get(updated_case_data, "user_id", None)
        patient_name == Get(updated_case_data, "patient_name", "Unknown Patient")
    IN  ProdOutcome("Success", None,
            Put(Put(updated_case_data, "status", "Dispatching_FullCase"),
                "full_production_started", t),
            Append(messages_to_send, Message(user_id_from_case,
                <<"Thank you for confirming the fit! The full set of aligners for '",
                  Str(patient_name),
                  "' is being prepared for dispatch. Expected delivery: 7-10 business days.">>)),
            Append(next_actions, "schedule_full_production"))

\* no_production_action reporting an undefined status as an error: the defect C3
\* detects
no_production_action_as_error(updated_case_data, messages_to_send, next_actions) ==
    ProdOutcome("Error", "No automated action defined for this status.",
                updated_case_data, messages_to_send, next_actions)

\* the else branch taking a reported fit issue back to the fit question: the
\* defect C29 detects
no_production_action_reopens(updated_case_data, messages_to_send, next_actions) ==
    ProdOutcome("NoAction", None,
                IF Get(updated_case_data, "status", None) = "FitIssueReported"
                THEN Put(updated_case_data, "status", "AwaitingFitConfirmation")
                ELSE updated_case_data,
                messages_to_send, next_actions)

\* the else branch: no automated action defined for the status
no_production_action(updated_case_data, messages_to_send, next_actions) ==
    ProdOutcome("NoAction", None, updated_case_data, messages_to_send, next_actions)

handle_production_start(case_id, updated_case_data, messages_to_send, next_actions, t) ==
    IF ~TruthyId(case_id) \/ ~TruthyDict(updated_case_data)
    THEN ProdOutcome("Error", ErrEngine, updated_case_data, messages_to_send, next_actions)
    ELSE
    LET status == Get(updated_case_data, "status", None)
    IN  CASE status = "ApprovedForProduction" ->
               start_planning(updated_case_data, messages_to_send, next_actions, t)
          [] status = "CasePlanningComplete" ->
               dispatch_training_aligner(updated_case_data, messages_to_send,
                                         next_actions, t)
          [] status = "FitConfirmed_PhaseWise" ->
               start_phase_production(updated_case_data, messages_to_send, next_actions, t)
          [] status = "FitConfirmed_FullCase" ->
               start_full_production(updated_case_data, messages_to_send, next_actions, t)
          [] OTHER ->
               no_production_action(updated_case_data, messages_to_send, next_actions)

\* ------------------------------------------------------------------------
\* The Classifier Oracle: what chain.run does when the handler calls it
\* ------------------------------------------------------------------------

\* chain.run raised
LlmRaises == [raises |-> TRUE, text |-> <<>>]

\* chain.run returned the text
LlmSays(text) == [raises |-> FALSE, text |-> text]

\* the handler returned before reaching chain.run
NotConsulted == [raises |-> FALSE, text |-> <<"<not consulted>">>]

\* ------------------------------------------------------------------------
\* Handlers of process_message
\* ------------------------------------------------------------------------

\* what a message handler hands back: its return dict ("status", "error"), the
\* objects it was passed and mutated in place, and whether it called chain.run
Outcome(status, error, case, session, msgs, nexts, consulted) ==
    [status |-> status, error |-> error, updated_case_data |-> case,
     updated_user_session |-> session, messages_to_send |-> msgs,
     next_actions |-> nexts, llm_consulted |-> consulted]

ErrRouter == "[ROUTER-ERROR] 'user_id', 'message_body', and 'current_user_session' must be provided for 'process_message' action."

ErrNoCaseDelivery == "No active case or case data found for this user to inquire about delivery."

ErrNoCaseFit == "No active case found for this user to confirm fit."

ErrNoCaseDispatch == "No active case found for this user to confirm dispatch choice."

ErrLlmFit == "LLM error during fit confirmation: <exception>"

ErrLlmDispatch == "LLM error during dispatch choice: <exception>"

\* classifier_error reported as a no-op: the defect C15 detects
classifier_error_as_noaction(error, updated_case_data, updated_user_session, messages_to_send, next_actions) ==
    Outcome("NoAction", None, updated_case_data, updated_user_session,
            messages_to_send, next_actions, TRUE)

\* classifier_error sending the user back to the general stage: the defect C24
\* detects
classifier_error_resets_stage(error, updated_case_data, updated_user_session, messages_to_send, next_actions) ==
    Outcome("Error", error, updated_case_data,
            Put(updated_user_session, "current_stage", "general"),
            messages_to_send, next_actions, TRUE)

\* classifier_error reached after the branch has written the status: the
\* partially applied transition C32 detects
classifier_error_after_write(error, updated_case_data, updated_user_session, messages_to_send, next_actions) ==
    Outcome("Error", error, Put(updated_case_data, "status", "FitIssueReported"),
            updated_user_session, messages_to_send, next_actions, TRUE)

\* except Exception as e: chain.run raised, before anything was appended or
\* assigned
classifier_error(error, updated_case_data, updated_user_session, messages_to_send, next_actions) ==
    Outcome("Error", error, updated_case_data, updated_user_session,
            messages_to_send, next_actions, TRUE)

PromptFitCheck(patient_name) ==
    <<"Great news! Our records show the training aligner for ", Str(patient_name),
      " has been delivered.\n\nPlease check the fit and let us know: Does the aligner fit correctly? (Yes/No)">>

\* the f-string interpolates delivery_status, a text
EchoDelivery(patient_name, delivery_status) ==
    <<"Hi Doctor! The current status for the aligner for ", Str(patient_name), " is: ">>
    \o delivery_status
    \o <<".\n\nWe'll notify you as soon as it's delivered.">>

\* delivery_confirmed without the stage assignment: the defect C11 detects
delivery_confirmed_keeps_stage(user_id, updated_case_data, updated_user_session, messages_to_send, next_actions) ==
    LET patient_name == Get(updated_case_data, "patient_name", "your patient")
    IN  Outcome("Success", None,
            Put(updated_case_data, "status", "AwaitingFitConfirmation"),
            updated_user_session,
            Append(messages_to_send, Message(user_id,
                PromptFitCheck(patient_name))),
            Append(next_actions, "follow_up_fit_confirmation"),
            FALSE)

\* delivery_status.lower() == "delivered": auto-progress to fit confirmation
delivery_confirmed(user_id, updated_case_data, updated_user_session, messages_to_send, next_actions) ==
    LET patient_name == Get(updated_case_data, "patient_name", "your patient")
    IN  Outcome("Success", None,
            Put(updated_case_data, "status", "AwaitingFitConfirmation"),
            Put(updated_user_session, "current_stage", "awaiting_fit_confirmation"),
            Append(messages_to_send, Message(user_id,
                PromptFitCheck(patient_name))),
            Append(next_actions, "follow_up_fit_confirmation"),
            FALSE)

\* delivery_echo that shows the placeholder instead of the Case's
\* delivery_status: the defect C12 detects
delivery_echo_placeholder(user_id, updated_case_data, updated_user_session, messages_to_send, next_actions) ==
    LET patient_name == Get(updated_case_data, "patient_name", "your patient")
        delivery_status == TxtInfoNA
    IN  Outcome("Success", None, updated_case_data, updated_user_session,
            Append(messages_to_send, Message(user_id,
                EchoDelivery(patient_name, delivery_status))),
            next_actions,
            FALSE)

\* otherwise: echo the current delivery status
delivery_echo(user_id, updated_case_data, updated_user_session, messages_to_send, next_actions) ==
    LET patient_name == Get(updated_case_data, "patient_name", "your patient")
        delivery_status == Get(updated_case_data, "delivery_status", TxtInfoNA)
    IN  Outcome("Success", None, updated_case_data, updated_user_session,
            Append(messages_to_send, Message(user_id,
                EchoDelivery(patient_name, delivery_status))),
            next_actions,
            FALSE)

handle_delivery_inquiry(user_id, message_body, active_case_id, updated_case_data, updated_user_session, messages_to_send, next_actions) ==
    IF ~TruthyId(active_case_id) \/ ~TruthyDict(updated_case_data)
    THEN Outcome("Error", ErrNoCaseDelivery, updated_case_data, updated_user_session,
                 messages_to_send, next_actions, FALSE)
    ELSE
    LET delivery_status == Get(updated_case_data, "delivery_status", TxtInfoNA)
    IN  IF TruthyText(delivery_status) /\ Lower(delivery_status) = kw_delivered
        THEN delivery_confirmed(user_id, updated_case_data, updated_user_session,
                                messages_to_send, next_actions)
        ELSE delivery_echo(user_id, updated_case_data, updated_user_session,
                           messages_to_send, next_actions)

PromptDeliveryMode(patient_name) ==
    <<"Excellent! The training aligner fits well.\n\nFor the full treatment aligners for ",
      Str(patient_name),
      ", would you prefer:\n\n1 Phase-Wise delivery (receive aligners in phases)\n2 Full Case delivery (receive all aligners at once)\n\nPlease reply with 'Phase-Wise' or 'Full Case'.">>

EscalationNotice(patient_name) ==
    <<"Thank you for the feedback. We understand the training aligner for ",
      Str(patient_name),
      " needs adjustment.\n\nA member of our clinical team will contact you within 24 hours to discuss the next steps.">>

RepromptFit ==
    <<"I apologize, I didn't quite understand your response.\n\nRegarding the training aligner fit, could you please confirm:\n\nYes - it fits correctly\nNo - it has fit issues\n\nA simple 'Yes' or 'No' would be helpful.">>

\* if "yes" in fit_confirmation
fit_confirmed(user_id, updated_case_data, updated_user_session, messages_to_send, next_actions) ==
    LET patient_name == Get(updated_case_data, "patient_name", "your patient")
    IN  Outcome("Success", None, updated_case_data,
            Put(updated_user_session, "current_stage", "awaiting_dispatch_choice"),
            Append(messages_to_send, Message(user_id, PromptDeliveryMode(patient_name))),
            Append(next_actions, "prepare_production_options"),
            TRUE)

\* fit_issue_reported sending the user back to wait for a delivery: the
\* defect C33 detects
fit_issue_reported_redelivers(user_id, updated_case_data, updated_user_session, messages_to_send, next_actions, t) ==
    LET patient_name == Get(updated_case_data, "patient_name", "your patient")
    IN  Outcome("Success", None,
            Put(Put(updated_case_data, "status", "FitIssueReported"),
                "fit_issue_reported_at", t),
            Put(updated_user_session, "current_stage", "awaiting_delivery"),
            Append(messages_to_send, Message(user_id, EscalationNotice(patient_name))),
            Append(next_actions, "escalate_to_clinical_team"),
            TRUE)

\* elif "no" in fit_confirmation; t is the int(time.time()) the branch reads
fit_issue_reported(user_id, updated_case_data, updated_user_session, messages_to_send, next_actions, t) ==
    LET patient_name == Get(updated_case_data, "patient_name", "your patient")
    IN  Outcome("Success", None,
            Put(Put(updated_case_data, "status", "FitIssueReported"),
                "fit_issue_reported_at", t),
            Put(updated_user_session, "current_stage", "general"),
            Append(messages_to_send, Message(user_id, EscalationNotice(patient_name))),
            Append(next_actions, "escalate_to_clinical_team"),
            TRUE)

\* fit_unclear reporting Success without a reply: the defect C31 detects
fit_unclear_silent(user_id, updated_case_data, updated_user_session, messages_to_send, next_actions) ==
    Outcome("Success", None, updated_case_data, updated_user_session,
            messages_to_send, next_actions, TRUE)

\* else: ask again
fit_unclear(user_id, updated_case_data, updated_user_session, messages_to_send, next_actions) ==
    Outcome("Success", None, updated_case_data, updated_user_session,
            Append(messages_to_send, Message(user_id, RepromptFit)),
            next_actions,
            TRUE)

handle_fit_confirmation(user_id, message_body, active_case_id, updated_case_data, updated_user_session, llm_instance, messages_to_send, next_actions, t) ==
    IF ~TruthyId(active_case_id)
    THEN Outcome("Error", ErrNoCaseFit, updated_case_data, updated_user_session,
                 messages_to_send, next_actions, FALSE)
    ELSE IF llm_instance.raises
    THEN classifier_error(ErrLlmFit, updated_case_data, updated_user_session,
                          messages_to_send, next_actions)
    ELSE
    LET fit_confirmation == Lower(Strip(llm_instance.text))
    IN  IF Contains(fit_confirmation, kw_yes)
        THEN fit_confirmed(user_id, updated_case_data, updated_user_session,
                           messages_to_send, next_actions)
        ELSE IF Contains(fit_confirmation, kw_no)
        THEN fit_issue_reported(user_id, updated_case_data, updated_user_session,
                                messages_to_send, next_actions, t)
        ELSE fit_unclear(user_id, updated_case_data, updated_user_session,
                         messages_to_send, next_actions)

ConfirmPhaseWise(patient_name) ==
    <<"Perfect! We'll prepare the phase-wise delivery for ", Str(patient_name),
      ". You'll receive the first phase soon, followed by subsequent phases as treatment progresses.">>

ConfirmFullCase(patient_name) ==
    <<"Excellent! We'll prepare the complete set of aligners for ", Str(patient_name),
      ". All aligners will be delivered together.">>

RepromptDispatch ==
    <<"I'm not sure which delivery option you'd prefer.\n\nPlease choose one of the following:\n\n1 'Phase-Wise' - Receive aligners in phases\n2 'Full Case' - Receive all aligners at once\n\nPlease reply with exactly 'Phase-Wise' or 'Full Case'.">>

\* classify_dispatch_choice with the two statuses crossed: the defect C9 detects
classify_dispatch_choice_crossed(dispatch_choice, user_id, patient_name, messages_to_send, next_actions) ==
    IF Contains(dispatch_choice, kw_phasewise)
    THEN [new_status |-> "FitConfirmed_FullCase",
          messages_to_send |-> Append(messages_to_send,
                                      Message(user_id, ConfirmPhaseWise(patient_name))),
          next_actions |-> Append(next_actions, "schedule_phase_wise_production")]
    ELSE IF Contains(dispatch_choice, kw_fullcase)
    THEN [new_status |-> "FitConfirmed_PhaseWise",
          messages_to_send |-> Append(messages_to_send,
                                      Message(user_id, ConfirmFullCase(patient_name))),
          next_actions |-> Append(next_actions, "schedule_full_case_production")]
    ELSE [new_status |-> None, messages_to_send |-> messages_to_send,
          next_actions |-> next_actions]

\* the if/elif on dispatch_choice: new_status, the confirmation appended to
\* messages_to_send and the entry appended to next_actions
classify_dispatch_choice(dispatch_choice, user_id, patient_name, messages_to_send, next_actions) ==
    IF Contains(dispatch_choice, kw_phasewise)
    THEN [new_status |-> "FitConfirmed_PhaseWise",
          messages_to_send |-> Append(messages_to_send,
                                      Message(user_id, ConfirmPhaseWise(patient_name))),
          next_actions |-> Append(next_actions, "schedule_phase_wise_production")]
    ELSE IF Contains(dispatch_choice, kw_fullcase)
    THEN [new_status |-> "FitConfirmed_FullCase",
          messages_to_send |-> Append(messages_to_send,
                                      Message(user_id, ConfirmFullCase(patient_name))),
          next_actions |-> Append(next_actions, "schedule_full_case_production")]
    ELSE [new_status |-> None, messages_to_send |-> messages_to_send,
          next_actions |-> next_actions]

\* if new_status; t is the int(time.time()) the branch reads
dispatch_choice_confirmed(new_status, updated_case_data, updated_user_session, messages_to_send, next_actions, t) ==
    Outcome("Success", None,
            Put(Put(updated_case_data, "status", new_status),
                "delivery_choice_confirmed_at", t),
            Put(updated_user_session, "current_stage", "general"),
            messages_to_send, next_actions, TRUE)

\* dispatch_choice_unclear with the stage reset of the confirmed branch: the
\* defect C10 detects
dispatch_choice_unclear_resets(user_id, updated_case_data, updated_user_session, messages_to_send, next_actions) ==
    Outcome("Success", None, updated_case_data,
            Put(updated_user_session, "current_stage", "general"),
            Append(messages_to_send, Message(user_id, RepromptDispatch)),
            next_actions, TRUE)

\* else: ask again
dispatch_choice_unclear(user_id, updated_case_data, updated_user_session, messages_to_send, next_actions) ==
    Outcome("Success", None, updated_case_data, updated_user_session,
            Append(messages_to_send, Message(user_id, RepromptDispatch)),
            next_actions, TRUE)

handle_dispatch_choice(user_id, message_body, active_case_id, updated_case_data, updated_user_session, llm_instance, messages_to_send, next_actions, t) ==
    IF ~TruthyId(active_case_id)
    THEN Outcome("Error", ErrNoCaseDispatch, updated_case_data, updated_user_session,
                 messages_to_send, next_actions, FALSE)
    ELSE IF llm_instance.raises
    THEN classifier_error(ErrLlmDispatch, updated_case_data, updated_user_session,
                          messages_to_send, next_actions)
    ELSE
    LET dispatch_choice == Lower(Strip(llm_instance.text))
        patient_name == Get(updated_case_data, "patient_name", "your patient")
        c == classify_dispatch_choice(dispatch_choice, user_id, patient_name,
                                      messages_to_send, next_actions)
    IN  IF c.new_status # None
        THEN dispatch_choice_confirmed(c.new_status, updated_case_data,
                                       updated_user_session, c.messages_to_send,
                                       c.next_actions, t)
        ELSE dispatch_choice_unclear(user_id, updated_case_data, updated_user_session,
                                     c.messages_to_send, c.next_actions)

GreetingWords ==
    {<<"h", "e", "l", "l", "o">>,
     <<"h", "i">>,
     <<"h", "e", "y">>,
     <<"g", "o", "o", "d", " ", "m", "o", "r", "n", "i", "n", "g">>,
     <<"g", "o", "o", "d", " ", "a", "f", "t", "e", "r", "n", "o", "o", "n">>}

StatusWords ==
    {<<"s", "t", "a", "t", "u", "s">>,
     <<"u", "p", "d", "a", "t", "e">>,
     <<"p", "r", "o", "g", "r", "e", "s", "s">>,
     <<"w", "h", "e", "r", "e">>}

DeliveryWords ==
    {<<"d", "e", "l", "i", "v", "e", "r", "y">>,
     <<"s", "h", "i", "p", "p", "e", "d">>,
     <<"t", "r", "a", "c", "k", "i", "n", "g">>}

HelpWords ==
    {<<"h", "e", "l", "p">>,
     <<"s", "u", "p", "p", "o", "r", "t">>,
     <<"a", "s", "s", "i", "s", "t", "a", "n", "c", "e">>}

ReplyGreeting ==
    <<"Hello! Welcome to our dental aligner service. How can I assist you today?\n\n- Check delivery status\n- Report fit issues\n- General questions about your case">>

ReplyStatus ==
    <<"I'd be happy to help you check the status of your case. Could you please provide your case ID or patient name?">>

ReplyDelivery ==
    <<"For delivery updates, I can check the current status of your shipment. Do you have an active case you'd like me to look up?">>

ReplyHelp ==
    <<"I'm here to help! I can assist with:\n\nDelivery status updates\nFit confirmation\nGeneral case information\nConnect you with our clinical team\n\nWhat would you like help with?">>

ReplyDefault ==
    <<"Thank you for your message. I'm here to help with your aligner cases.\n\nIf you need immediate assistance, please contact our support team, or let me know how I can help you today!">>

\* any(word in message_lower for word in words)
AnyWordIn(words, message_lower) == \E word \in words : Contains(message_lower, word)

\* handle_general_inquiry with the status test ahead of the greeting test: the
\* defect C13 detects
handle_general_inquiry_status_first(user_id, message_body, updated_user_session, messages_to_send) ==
    LET message_lower == Lower(message_body)
        response == IF AnyWordIn(StatusWords, message_lower) THEN ReplyStatus
                    ELSE IF AnyWordIn(GreetingWords, message_lower) THEN ReplyGreeting
                    ELSE IF AnyWordIn(DeliveryWords, message_lower) THEN ReplyDelivery
                    ELSE IF AnyWordIn(HelpWords, message_lower) THEN ReplyHelp
                    ELSE ReplyDefault
    IN  [status |-> "Success", error |-> None,
         updated_user_session |-> updated_user_session,
         messages_to_send |-> Append(messages_to_send, Message(user_id, response))]

handle_general_inquiry(user_id, message_body, updated_user_session, messages_to_send) ==
    LET message_lower == Lower(message_body)
        response == IF AnyWordIn(GreetingWords, message_lower) THEN ReplyGreeting
                    ELSE IF AnyWordIn(StatusWords, message_lower) THEN ReplyStatus
                    ELSE IF AnyWordIn(DeliveryWords, message_lower) THEN ReplyDelivery
                    ELSE IF AnyWordIn(HelpWords, message_lower) THEN ReplyHelp
                    ELSE ReplyDefault
    IN  [status |-> "Success", error |-> None,
         updated_user_session |-> updated_user_session,
         messages_to_send |-> Append(messages_to_send, Message(user_id, response))]

\* unhandled_stage answering with the default reply: the defect C14 detects
unhandled_stage_replies(user_id, updated_case_data, updated_user_session, messages_to_send, next_actions) ==
    Outcome("Success", None, updated_case_data, updated_user_session,
            Append(messages_to_send, Message(user_id, ReplyDefault)), next_actions, FALSE)

\* else: the stage is none of the four handled ones
unhandled_stage(user_id, updated_case_data, updated_user_session, messages_to_send, next_actions) ==
    Outcome("NoAction", None, updated_case_data, updated_user_session,
            messages_to_send, next_actions, FALSE)

handle_message_processing(user_id, message_body, updated_user_session, updated_case_data, llm_instance, messages_to_send, next_actions, t) ==
    IF ~TruthyId(user_id) \/ ~TruthyText(message_body) \/ ~TruthyDict(updated_user_session)
    THEN Outcome("Error", ErrRouter, updated_case_data, updated_user_session,
                 messages_to_send, next_actions, FALSE)
    ELSE
    LET stage == Get(updated_user_session, "current_stage", "general")
        active_case_id == Get(updated_user_session, "active_case", None)
    IN  CASE stage = "awaiting_delivery" ->
               handle_delivery_inquiry(user_id, message_body, active_case_id,
                                       updated_case_data, updated_user_session,
                                       messages_to_send, next_actions)
          [] stage = "awaiting_fit_confirmation" ->
               handle_fit_confirmation(user_id, message_body, active_case_id,
                                       updated_case_data, updated_user_session,
                                       llm_instance, messages_to_send, next_actions, t)
          [] stage = "awaiting_dispatch_choice" ->
               handle_dispatch_choice(user_id, message_body, active_case_id,
                                      updated_case_data, updated_user_session,
                                      llm_instance, messages_to_send, next_actions, t)
          [] stage = "general" ->
               LET g == handle_general_inquiry(user_id, message_body,
                                               updated_user_session, messages_to_send)
               IN  Outcome(g.status, g.error, updated_case_data, g.updated_user_session,
                           g.messages_to_send, next_actions, FALSE)
          [] OTHER ->
               unhandled_stage(user_id, updated_case_data, updated_user_session,
                               messages_to_send, next_actions)

\* ------------------------------------------------------------------------
\* dental_aligner_workflow
\* ------------------------------------------------------------------------

\* WorkingObject without .copy(): the defect C17 detects
WorkingObject_alias(snapshot) ==
    IF snapshot # NoneDict /\ TruthyDict(snapshot[1]) THEN "argument" ELSE "new"

\* which object the handlers mutate in place: `x.copy() if x else {}` makes a new
\* dict in both branches, never the caller's object
WorkingObject(snapshot) ==
    IF snapshot # NoneDict /\ TruthyDict(snapshot[1]) THEN "copy" ELSE "new"

\* AfterCall with the returned dict stored into the caller's object: the defect
\* C16 detects
AfterCall_writes_back(snapshot, returned) ==
    IF TruthyDict(returned) THEN Some(returned) ELSE snapshot

\* what the caller's object holds when the call returns: the in-place changes of
\* the handlers reach it only if the working dict is that very object
AfterCall(snapshot, returned) ==
    IF WorkingObject(snapshot) = "argument" THEN Some(returned) ELSE snapshot

\* the dict the caller supplied: nothing when it passed None
Supplied(snapshot) == IF snapshot = NoneDict THEN EmptyDict ELSE snapshot[1]

\* the working dict started empty whatever was supplied: the defect C27 detects
CopyOrEmpty_forgets(snapshot) == EmptyDict

\* current_case_data.copy() if current_case_data else {}
CopyOrEmpty(snapshot) ==
    IF snapshot # NoneDict /\ TruthyDict(snapshot[1]) THEN snapshot[1] ELSE EmptyDict

ErrInvalidAction == "Invalid 'action_type' provided. Must be 'start_production' or 'process_message'."

\* the metadata step run only after a success: the defect C28 detects
Stamped_success_only(action_type, out, session, consulted, workflow_timestamp) ==
    [updated_case_data |->
         IF TruthyDict(out.updated_case_data) /\ out.status = "Success"
         THEN Put(Put(out.updated_case_data, "last_workflow_run", workflow_timestamp),
                  "last_action_type", action_type)
         ELSE out.updated_case_data,
     updated_user_session |->
         IF TruthyDict(session) /\ out.status = "Success"
         THEN Put(session, "last_activity", workflow_timestamp)
         ELSE session,
     messages_to_send |-> out.messages_to_send,
     status |-> out.status,
     error |-> out.error,
     next_actions |-> out.next_actions,
     workflow_timestamp |-> workflow_timestamp,
     llm_consulted |-> consulted]

\* Stamped moving the Session on with the Case under start_production: the
\* defect C34 detects
Stamped_follows_case(action_type, out, session, consulted, workflow_timestamp) ==
    [updated_case_data |->
         IF TruthyDict(out.updated_case_data)
         THEN Put(Put(out.updated_case_data, "last_workflow_run", workflow_timestamp),
                  "last_action_type", action_type)
         ELSE out.updated_case_data,
     updated_user_session |->
         IF TruthyDict(session)
         THEN IF action_type = "start_production" /\ out.status = "Success"
              THEN Put(Put(session, "current_stage", "awaiting_delivery"),
                       "last_activity", workflow_timestamp)
              ELSE Put(session, "last_activity", workflow_timestamp)
         ELSE session,
     messages_to_send |-> out.messages_to_send,
     status |-> out.status,
     error |-> out.error,
     next_actions |-> out.next_actions,
     workflow_timestamp |-> workflow_timestamp,
     llm_consulted |-> consulted]

\* The "Add workflow metadata" step and the returned dict
Stamped(action_type, out, session, consulted, workflow_timestamp) ==
    [updated_case_data |->
         IF TruthyDict(out.updated_case_data)
         THEN Put(Put(out.updated_case_data, "last_workflow_run", workflow_timestamp),
                  "last_action_type", action_type)
         ELSE out.updated_case_data,
     updated_user_session |->
         IF TruthyDict(session)
         THEN Put(session, "last_activity", workflow_timestamp)
         ELSE session,
     messages_to_send |-> out.messages_to_send,
     status |-> out.status,
     error |-> out.error,
     next_actions |-> out.next_actions,
     workflow_timestamp |-> workflow_timestamp,
     llm_consulted |-> consulted]

\* workflow_timestamp is int(time.time()) at entry, t the value a handler reads later;
\* llm_instance is what chain.run does if a handler calls it. The field llm_consulted
\* of the result is not part of the returned dict: it records whether chain.run ran.
dental_aligner_workflow(action_type, llm_instance, case_id, user_id, message_body, current_case, current_session, workflow_timestamp, t) ==
    LET updated_case_data == CopyOrEmpty(current_case)
        updated_user_session == CopyOrEmpty(current_session)
        messages_to_send == <<>>
        next_actions == <<>>
    IN  CASE action_type = "start_production" ->
               LET r == handle_production_start(case_id, updated_case_data,
                                                messages_to_send, next_actions, t)
               IN  Stamped(action_type, r, updated_user_session, FALSE, workflow_timestamp)
          [] action_type = "process_message" ->
               LET r == handle_message_processing(user_id, message_body,
                                                  updated_user_session, updated_case_data,
                                                  llm_instance, messages_to_send,
                                                  next_actions, t)
               IN  Stamped(action_type, r, r.updated_user_session, r.llm_consulted,
                           workflow_timestamp)
          [] OTHER ->
               Stamped(action_type,
                       ProdOutcome("Error", ErrInvalidAction, updated_case_data,
                                   messages_to_send, next_actions),
                       updated_user_session, FALSE, workflow_timestamp)

\* ------------------------------------------------------------------------
\* The inputs an invocation is given
\* ------------------------------------------------------------------------

DeclaredStatuses ==
    {"ApprovedForProduction", "CasePlanningComplete", "AwaitingDelivery",
     "AwaitingFitConfirmation", "FitIssueReported", "FitConfirmed_PhaseWise",
     "FitConfirmed_FullCase", "Dispatching_PhaseWise", "Dispatching_FullCase"}

\* a status no branch of the engine names
OtherStatuses == {"Completed"}

Stages ==
    {"general", "awaiting_delivery", "awaiting_fit_confirmation",
     "awaiting_dispatch_choice"}

\* a stage of the session router that the engine does not handle
OtherStages == {"intent"}

Users == {"+1234567890", "+9876543210"}

TheCaseId == "case-1"

\* the dict with the given keys: each key is present iff its value is not Absent
Absent == "<absent>"

AbsentText == <<"<absent>">>

OptionalKey(k, v, absent) == IF v = absent THEN EmptyDict ELSE [x \in {k} |-> v]

CaseDicts ==
    { [id |-> TheCaseId, user_id |-> u]
        @@ OptionalKey("status", st, Absent)
        @@ OptionalKey("patient_name", pn, Absent)
        @@ OptionalKey("delivery_status", ds, AbsentText) :
      u \in Users,
      st \in DeclaredStatuses \cup OtherStatuses \cup {Absent},
      pn \in {"Alice", None, Absent},
      ds \in {TxtInTransit, TxtDelivered, TxtDeliveredUpper, AbsentText} }

SessionDicts ==
    { [user_id |-> "+1234567890", active_case |-> ac]
        @@ OptionalKey("current_stage", sg, Absent) :
      ac \in {TheCaseId, None},
      sg \in Stages \cup OtherStages \cup {Absent} }

CaseSnapshots == {NoneDict, Some(EmptyDict)} \cup {Some(d) : d \in CaseDicts}

SessionSnapshots == {NoneDict, Some(EmptyDict)} \cup {Some(d) : d \in SessionDicts}

CaseIdArgs == {None, TheCaseId}

UserIdArgs == {None, "+1234567890"}

MessageBodies ==
    {NoneText, <<>>, TxtAnyUpdate, TxtHello, TxtHiStatus, TxtDeliveryUpdate,
     TxtHelpTracking, TxtSupport, TxtThanks}

LlmAnswers ==
    {TxtYes, TxtNo, TxtUnknown, TxtYesUpper, TxtUnknownUpper, TxtYesPadded,
     TxtYesVerbose, TxtMaybe, TxtNotYes, TxtPhaseWise, TxtFullCase, TxtPhaseHyphen,
     TxtBothChoices}

LlmBehaviours == {LlmRaises} \cup {LlmSays(a) : a \in LlmAnswers}

\* the oracle raises or answers with a label of the prompts
PromptedBehaviours ==
    {LlmRaises} \cup {LlmSays(a) : a \in {TxtYes, TxtNo, TxtUnknown, TxtPhaseWise, TxtFullCase}}

\* ------------------------------------------------------------------------
\* One invocation of the engine on a snapshot pair
\* ------------------------------------------------------------------------

VARIABLES
    pc,                    \* "ready" before the invocation, "done" after it
    current_case_data,     \* the caller's Case object, passed as the snapshot
    current_user_session,  \* the caller's Session object, passed as the snapshot
    request,               \* the other arguments of the invocation
    llm_reply,             \* what chain.run did, NotConsulted if it was not called
    result,                \* the dict dental_aligner_workflow returned
    repeated,              \* the dict a second call with the same arguments returned
    cases_db,              \* the orchestrator's Case store: case id -> Case
    user_sessions,         \* the orchestrator's Session store: user id -> Session
    clock,                 \* the second int(time.time()) returns
    script,                \* the steps a running test scenario has still to do
    op,                    \* the operation the orchestrator did last
    threads,               \* the requests the web server is handling
    returned               \* the status the engine returned to the orchestrator
                           \* last, what the oracle did in that call, and the
                           \* messages the call handed to the Graph API

engineVars == <<pc, current_case_data, current_user_session, request, llm_reply, result, repeated>>

storeVars == <<cases_db, user_sessions, clock, script, op, threads, returned>>

vars == <<pc, current_case_data, current_user_session, request, llm_reply, result, repeated, cases_db, user_sessions, clock, script, op, threads, returned>>

\* no orchestrator: the stores are not part of the run
NoScript == <<>>

NoThreads == <<>>

\* the orchestrator has not called the engine since its last command
NoReturn == [status |-> None, oracle |-> NotConsulted, posted |-> <<>>]

\* the simulator sends through MockWhatsAppAPI: nothing reaches the Graph API
Returned(r, llm) == [status |-> r.status, oracle |-> llm, posted |-> <<>>]

StoresUnused ==
    /\ cases_db = EmptyDict
    /\ user_sessions = EmptyDict
    /\ clock = 1
    /\ script = NoScript
    /\ op = "none"
    /\ threads = NoThreads
    /\ returned = NoReturn

NoRequest ==
    [action_type |-> None, case_id |-> None, user_id |-> None, message_body |-> NoneText]

NoResult ==
    [updated_case_data |-> EmptyDict, updated_user_session |-> EmptyDict,
     messages_to_send |-> <<>>, status |-> None, error |-> None,
     next_actions |-> <<>>, workflow_timestamp |-> 0, llm_consulted |-> FALSE]

Init ==
    /\ pc = "ready"
    /\ current_case_data \in CaseSnapshots
    /\ current_user_session \in SessionSnapshots
    /\ request = NoRequest
    /\ llm_reply = NotConsulted
    /\ result = NoResult
    /\ repeated = NoResult
    /\ StoresUnused

Invoke(action_type, llm, case_id, user_id, message_body, now, t) ==
    LET r == dental_aligner_workflow(action_type, llm, case_id, user_id, message_body,
                                     current_case_data, current_user_session, now, t)
    IN  /\ pc = "ready"
        /\ pc' = "done"
        /\ request' = [action_type |-> action_type, case_id |-> case_id,
                       user_id |-> user_id, message_body |-> message_body]
        /\ llm_reply' = IF r.llm_consulted THEN llm ELSE NotConsulted
        /\ result' = r
        /\ current_case_data' = AfterCall(current_case_data, r.updated_case_data)
        /\ current_user_session' = AfterCall(current_user_session, r.updated_user_session)
        /\ UNCHANGED repeated
        /\ UNCHANGED storeVars

\* dental_aligner_workflow("start_production", llm, case_id=..., current_case_data=...,
\* current_user_session=...)
StartProduction ==
    \E case_id \in CaseIdArgs, now \in 1..MaxNow :
        \E t \in now..MaxNow :
            Invoke("start_production", NotConsulted, case_id, None, NoneText, now, t)

\* dental_aligner_workflow("process_message", llm, user_id=..., message_body=...,
\* current_case_data=..., current_user_session=...)
\* chain.run answers only on the paths that reach it: on the other paths the
\* oracle is not part of the invocation
ProcessMessage ==
    /\ pc = "ready"
    /\ \E user_id \in UserIdArgs, message_body \in MessageBodies, now \in 1..MaxNow :
         \E t \in now..MaxNow :
           LET reached == dental_aligner_workflow("process_message", LlmRaises, None,
                              user_id, message_body, current_case_data,
                              current_user_session, now, t).llm_consulted
           IN  \E llm \in (IF reached THEN LlmBehaviours ELSE {NotConsulted}) :
                   Invoke("process_message", llm, None, user_id, message_body, now, t)

\* any other action_type
InvalidAction ==
    \E now \in 1..MaxNow :
        Invoke("advance_production", NotConsulted, TheCaseId, "+1234567890",
               TxtAnyUpdate, now, now)

Next == StartProduction \/ ProcessMessage \/ InvalidAction

Spec == Init /\ [][Next]_vars

\* ------------------------------------------------------------------------
\* start_production called a second time with the same arguments and the same
\* objects, nothing having been persisted in between
\* ------------------------------------------------------------------------

\* the clock of the second call is not behind the clock of the first
StartProductionAgain ==
    /\ pc = "done"
    /\ request.action_type = "start_production"
    /\ \E now \in result.workflow_timestamp..MaxNow :
         \E t \in now..MaxNow :
           LET r == dental_aligner_workflow("start_production", NotConsulted,
                        request.case_id, None, NoneText, current_case_data,
                        current_user_session, now, t)
           IN  /\ pc' = "repeated"
               /\ repeated' = r
               /\ current_case_data' = AfterCall(current_case_data, r.updated_case_data)
               /\ current_user_session' =
                      AfterCall(current_user_session, r.updated_user_session)
               /\ UNCHANGED <<request, llm_reply, result>>
               /\ UNCHANGED storeVars

NextRepeat == StartProduction \/ StartProductionAgain

SpecRepeat == Init /\ [][NextRepeat]_vars

\* ------------------------------------------------------------------------
\* workflow_simulator.py: WorkflowSimulator, the single-threaded orchestrator.
\* It handles one command at a time; a test scenario is a command that runs a
\* fixed list of steps.
\* ------------------------------------------------------------------------

\* the engine is not called directly: its variables are not part of the run
EngineUnused ==
    /\ pc = "orchestrator"
    /\ current_case_data = NoneDict
    /\ current_user_session = NoneDict
    /\ request = NoRequest
    /\ llm_reply = NotConsulted
    /\ result = NoResult
    /\ repeated = NoResult

\* the user of _run_test_scenario
ScenarioUser == "+1234567890"

\* f"case-sim-{int(time.time())}"
case_sim_id(t) == "case-sim-" \o ToString(t)

_get_dentist_name(user_id) ==
    CASE user_id = "+1234567890" -> "Dr. Sarah Johnson"
      [] user_id = "+9876543210" -> "Dr. Michael Smith"
      [] OTHER -> "Dr. Unknown"

\* the record create_test_case stores under the id made from the clock
create_test_case(user_id, patient_name) ==
    /\ Cardinality(DOMAIN cases_db \cup {case_sim_id(clock)}) <= MaxCases
    /\ cases_db' = Put(cases_db, case_sim_id(clock),
                       [id |-> case_sim_id(clock), user_id |-> user_id,
                        patient_name |-> patient_name,
                        dentist_name |-> _get_dentist_name(user_id),
                        status |-> "ApprovedForProduction",
                        created_at |-> clock, updated_at |-> clock,
                        delivery_status |-> TxtNotStarted])
    /\ op' = "create"
    /\ returned' = NoReturn
    /\ UNCHANGED <<user_sessions, clock>>

simulate_production_start(case_id) ==
    /\ case_id \in DOMAIN cases_db
    /\ \E t \in {clock} :
         LET current_case == cases_db[case_id]
             user_id == current_case.user_id
             current_session == IF user_id \in DOMAIN user_sessions
                                THEN user_sessions[user_id] ELSE EmptyDict
             r == dental_aligner_workflow("start_production", NotConsulted, case_id,
                      None, NoneText, Some(current_case), Some(current_session),
                      clock, t)
         IN  /\ cases_db' = IF TruthyDict(r.updated_case_data)
                            THEN Put(cases_db, case_id, r.updated_case_data)
                            ELSE cases_db
             /\ user_sessions' = IF TruthyDict(r.updated_user_session)
                                 THEN Put(user_sessions, user_id, r.updated_user_session)
                                 ELSE user_sessions
             /\ clock' = t
             /\ op' = "start_production"
             /\ returned' = Returned(r, NotConsulted)

\* the arguments simulate_message_processing passes to the engine
MessageArguments(user_id) ==
    LET session == IF user_id \in DOMAIN user_sessions
                   THEN user_sessions[user_id]
                   ELSE [user_id |-> user_id, current_stage |-> "general",
                         active_case |-> None, last_message_time |-> clock]
        active_case_id == Get(session, "active_case", None)
    IN  [active_case_id |-> active_case_id,
         current_case_data |->
             IF TruthyId(active_case_id) /\ active_case_id \in DOMAIN cases_db
             THEN Some(cases_db[active_case_id]) ELSE NoneDict,
         current_user_session |-> Put(session, "last_message_time", clock)]

simulate_message_processing(user_id, message) ==
    \E t \in {clock} :
      LET a == MessageArguments(user_id)
          reached == dental_aligner_workflow("process_message", LlmRaises, None,
                         user_id, message, a.current_case_data,
                         Some(a.current_user_session), clock, t).llm_consulted
      IN  \E llm \in (IF reached THEN PromptedBehaviours ELSE {NotConsulted}) :
            LET r == dental_aligner_workflow("process_message", llm, None, user_id,
                         message, a.current_case_data, Some(a.current_user_session),
                         clock, t)
            IN  /\ cases_db' = IF TruthyDict(r.updated_case_data) /\ TruthyId(a.active_case_id)
                               THEN Put(cases_db, a.active_case_id, r.updated_case_data)
                               ELSE cases_db
                /\ user_sessions' =
                       IF TruthyDict(r.updated_user_session)
                       THEN Put(user_sessions, user_id, r.updated_user_session)
                       ELSE IF user_id \in DOMAIN user_sessions
                       THEN Put(user_sessions, user_id, a.current_user_session)
                       ELSE user_sessions
                /\ clock' = t
                /\ op' = "process_message"
                /\ returned' = Returned(r, llm)

\* the assignments a scenario makes to the stores by hand
set_by_hand(case_id, case_keys, session_keys) ==
    /\ cases_db' = Put(cases_db, case_id, case_keys @@ cases_db[case_id])
    /\ user_sessions' = Put(user_sessions, ScenarioUser,
                            session_keys @@ user_sessions[ScenarioUser])
    /\ op' = "by_hand"
    /\ returned' = NoReturn
    /\ UNCHANGED clock

\* time.sleep(1)
sleep_one_second ==
    /\ clock < MaxNow
    /\ clock' \in (clock + 1)..MaxNow
    /\ op' = "sleep"
    /\ returned' = NoReturn
    /\ UNCHANGED <<cases_db, user_sessions>>

Do(what) == [do |-> what, body |-> NoneText]

Say(body) == [do |-> "message", body |-> body]

\* what _run_test_scenario does after create_test_case
ScenarioSteps ==
    [fit_confirmation |->
         <<Do("start"), Do("force_awaiting_delivery"), Say(TxtHasBeenDelivered),
           Say(TxtYesFitsPerfectly)>>,
     dispatch_choice |->
         <<Do("force_awaiting_dispatch_choice"), Say(TxtPreferPhaseWise)>>,
     full_workflow |->
         <<Do("start"), Do("sleep"), Do("start"), Do("mark_delivered"),
           Say(TxtDeliveryStatus), Say(TxtYesFitsWell), Say(TxtFullCasePlease)>>]

ScenarioPatient ==
    [fit_confirmation |-> "Test Patient", dispatch_choice |-> "Test Patient 2",
     full_workflow |-> "Complete Test Patient"]

\* the messages of the `send message` command
SimMessages == {TxtAnyUpdate, TxtHello}

SimInit ==
    /\ EngineUnused
    /\ cases_db = EmptyDict
    /\ user_sessions = [u \in Users |->
                           [user_id |-> u, current_stage |-> "general",
                            active_case |-> None, last_message_time |-> 1]]
    /\ clock = 1
    /\ script = NoScript
    /\ op = "none"
    /\ threads = NoThreads
    /\ returned = NoReturn

\* command `create case <user_id> <patient_name>`
CmdCreateCase ==
    /\ script = NoScript
    /\ \E user_id \in Users : create_test_case(user_id, "Alice")
    /\ UNCHANGED <<script, threads, engineVars>>

\* command `start production <case_id>`
CmdStartProduction ==
    /\ script = NoScript
    /\ \E case_id \in DOMAIN cases_db : simulate_production_start(case_id)
    /\ UNCHANGED <<script, threads, engineVars>>

\* command `send message <user_id> <message>`
CmdSendMessage ==
    /\ script = NoScript
    /\ \E user_id \in Users, message \in SimMessages :
           simulate_message_processing(user_id, message)
    /\ UNCHANGED <<script, threads, engineVars>>

\* command `test scenario <name>`: create_test_case, then the steps
CmdTestScenario ==
    /\ script = NoScript
    /\ \E scenario \in DOMAIN ScenarioSteps :
         /\ create_test_case(ScenarioUser, ScenarioPatient[scenario])
         /\ script' = [case_id |-> case_sim_id(clock), steps |-> ScenarioSteps[scenario]]
    /\ UNCHANGED <<threads, engineVars>>

\* the next step of the running scenario
ScenarioStep ==
    /\ script # NoScript
    /\ LET step == Head(script.steps)
           case_id == script.case_id
       IN  CASE step.do = "start" -> simulate_production_start(case_id)
             [] step.do = "sleep" -> sleep_one_second
             [] step.do = "message" ->
                  simulate_message_processing(ScenarioUser, step.body)
             [] step.do = "force_awaiting_delivery" ->
                  set_by_hand(case_id,
                      [status |-> "AwaitingDelivery", delivery_status |-> kw_delivered],
                      [current_stage |-> "awaiting_delivery", active_case |-> case_id])
             [] step.do = "force_awaiting_dispatch_choice" ->
                  set_by_hand(case_id,
                      [status |-> "AwaitingFitConfirmation"],
                      [current_stage |-> "awaiting_dispatch_choice",
                       active_case |-> case_id])
             [] step.do = "mark_delivered" ->
                  set_by_hand(case_id,
                      [delivery_status |-> kw_delivered],
                      [current_stage |-> "awaiting_delivery", active_case |-> case_id])
    /\ script' = IF Len(script.steps) = 1 THEN NoScript
                 ELSE [script EXCEPT !.steps = Tail(script.steps)]
    /\ UNCHANGED <<threads, engineVars>>

\* a second passes
Tick ==
    /\ clock < MaxNow
    /\ clock' = clock + 1
    /\ UNCHANGED <<cases_db, user_sessions, script, op, threads, returned, engineVars>>

SimNext ==
    \/ CmdCreateCase
    \/ CmdStartProduction
    \/ CmdSendMessage
    \/ CmdTestScenario
    \/ ScenarioStep
    \/ Tick

SpecSimulator == SimInit /\ [][SimNext]_vars

\* ------------------------------------------------------------------------
\* what.py: the Flask application. app.run serves each request in a thread of
\* its own; a handler reads the stores, calls the engine and writes the stores
\* with no lock, so the handlers of two requests interleave between the read
\* and the write.
\* ------------------------------------------------------------------------

ThreadIds == {"request-1", "request-2"}

IdleThread == [pc |-> "idle"]

\* the record /create-case stores (created_at is the clock of the creation)
create_case(case_id, user_id, patient_name, status, t) ==
    [id |-> case_id, user_id |-> user_id, patient_name |-> patient_name,
     dentist_name |-> None, status |-> status, created_at |-> t]

\* the record process_dentist_message stores for a user it has not seen
new_session(user_id, timestamp) ==
    [user_id |-> user_id, current_stage |-> "general", active_case |-> None,
     last_message_time |-> timestamp]

\* the stores after /create-case has stored a Case in the status the request
\* gave; the owner has written before, or not yet
WebInit ==
    /\ EngineUnused
    /\ \E status \in DeclaredStatuses :
           cases_db = [c \in {TheCaseId} |->
                          create_case(TheCaseId, "+1234567890", "Alice", status, 1)]
    /\ user_sessions \in {EmptyDict,
                           [u \in {"+1234567890"} |-> new_session("+1234567890", 1)]}
    /\ clock = 1
    /\ script = NoScript
    /\ op = "none"
    /\ threads = [th \in ThreadIds |-> IdleThread]
    /\ returned = NoReturn

\* the text of an inbound message: "" when the message carries no text
WebMessages == {TxtHello, <<>>}

\* the 24 hour window of send_whatsapp_text, in seconds
Window == 86400

\* send_whatsapp_text posting whenever the recipient has a Session: the
\* defect C36 detects
send_whatsapp_text_any_time(sessions, recipient_number, now) ==
    recipient_number \in DOMAIN sessions

\* whether send_whatsapp_text(recipient_number, text) posts the text to the
\* Graph API: `if last_time and (now - last_time) <= 86400`
send_whatsapp_text(sessions, recipient_number, now) ==
    LET user_session == IF recipient_number \in DOMAIN sessions
                        THEN sessions[recipient_number] ELSE EmptyDict
    IN  /\ "last_message_time" \in DOMAIN user_session
        /\ user_session.last_message_time # 0
        /\ (now - user_session.last_message_time) <= Window

\* `for msg in result.get("messages_to_send", []): send_whatsapp_text(...)`:
\* the messages of the loop that are posted
Posted(sessions, messages_to_send, now) ==
    SelectSeq(messages_to_send,
              LAMBDA msg : send_whatsapp_text(sessions, msg.recipient_id, now))

\* what the web application returns to, with what it posted
ReturnedAndPosted(r, llm, posted) == [status |-> r.status, oracle |-> llm, posted |-> posted]

\* start_production up to the return of the engine (what.py lines 129-141)
StartProductionCompute(th) ==
    /\ threads[th].pc = "idle"
    /\ \E case_id \in DOMAIN cases_db :
         LET current_case == cases_db[case_id]
             owner == Get(current_case, "user_id", None)
             current_session == IF owner \in DOMAIN user_sessions
                                THEN user_sessions[owner] ELSE EmptyDict
             r == dental_aligner_workflow("start_production", NotConsulted, case_id,
                      None, NoneText, Some(current_case), Some(current_session),
                      clock, clock)
         IN  threads' = [threads EXCEPT ![th] =
                            [pc |-> "computed", kind |-> "start_production",
                             case_id |-> case_id, user_id |-> owner,
                             fetched_case |-> current_case,
                             fetched_session |-> current_session,
                             oracle |-> NotConsulted, result |-> r]]
    /\ op' = "fetch"
    /\ UNCHANGED <<cases_db, user_sessions, clock, script, returned, engineVars>>

\* start_production from the return of the engine (what.py lines 143-151)
StartProductionPersist(th) ==
    /\ threads[th].pc = "computed"
    /\ threads[th].kind = "start_production"
    /\ cases_db' = IF TruthyDict(threads[th].result.updated_case_data)
                   THEN Put(cases_db, threads[th].case_id,
                            threads[th].result.updated_case_data)
                   ELSE cases_db
    /\ threads' = [threads EXCEPT ![th] = IdleThread]
    /\ op' = "start_production"
    /\ returned' = ReturnedAndPosted(threads[th].result, threads[th].oracle,
                       Posted(user_sessions, threads[th].result.messages_to_send, clock))
    /\ UNCHANGED <<user_sessions, clock, script, engineVars>>

\* the Session store after lines 89-97 of process_dentist_message
TouchedSessions(user_id, timestamp) ==
    LET known == IF user_id \in DOMAIN user_sessions THEN user_sessions
                 ELSE Put(user_sessions, user_id, new_session(user_id, timestamp))
    IN  Put(known, user_id, Put(known[user_id], "last_message_time", timestamp))

\* process_dentist_message up to the return of the engine (what.py lines 89-111)
ProcessMessageCompute(th) ==
    /\ threads[th].pc = "idle"
    /\ \E user_id \in {"+1234567890"}, message_body \in WebMessages :
         LET sessions == TouchedSessions(user_id, clock)
             current_session == sessions[user_id]
             active_case_id == Get(current_session, "active_case", None)
             current_case == IF TruthyId(active_case_id)
                                /\ active_case_id \in DOMAIN cases_db
                             THEN Some(cases_db[active_case_id]) ELSE NoneDict
             reached == dental_aligner_workflow("process_message", LlmRaises, None,
                            user_id, message_body, current_case,
                            Some(current_session), clock, clock).llm_consulted
         IN  \E llm \in (IF reached THEN PromptedBehaviours ELSE {NotConsulted}) :
               /\ user_sessions' = sessions
               /\ threads' = [threads EXCEPT ![th] =
                      [pc |-> "computed", kind |-> "process_message",
                       case_id |-> active_case_id, user_id |-> user_id,
                       fetched_case |-> Supplied(current_case),
                       fetched_session |-> current_session, oracle |-> llm,
                       result |-> dental_aligner_workflow("process_message", llm,
                                      None, user_id, message_body, current_case,
                                      Some(current_session), clock, clock)]]
    /\ op' = "fetch"
    /\ UNCHANGED <<cases_db, clock, script, returned, engineVars>>

\* process_dentist_message from the return of the engine (what.py lines 113-121)
ProcessMessagePersist(th) ==
    /\ threads[th].pc = "computed"
    /\ threads[th].kind = "process_message"
    /\ LET r == threads[th].result
           id_from_result == Get(r.updated_case_data, "id", None)
           case_id == IF TruthyId(id_from_result) THEN id_from_result
                      ELSE threads[th].case_id
       IN  /\ cases_db' = IF TruthyDict(r.updated_case_data) /\ TruthyId(case_id)
                          THEN Put(cases_db, case_id, r.updated_case_data)
                          ELSE cases_db
           /\ user_sessions' = Put(user_sessions, threads[th].user_id,
                                   r.updated_user_session)
    /\ threads' = [threads EXCEPT ![th] = IdleThread]
    /\ op' = "process_message"
    /\ returned' = ReturnedAndPosted(threads[th].result, threads[th].oracle,
                       Posted(user_sessions', threads[th].result.messages_to_send, clock))
    /\ UNCHANGED <<clock, script, engineVars>>

\* f"case-{int(time.time())}"
case_id_of_clock(t) == "case-" \o ToString(t)

\* POST /create-case: the record is stored under the id of the request, or
\* under an id made from the clock when the request names none
CreateCase ==
    /\ \E requested \in {None, TheCaseId}, user_id \in Users :
         LET case_id == IF TruthyId(requested) THEN requested
                        ELSE case_id_of_clock(clock)
         IN  /\ Cardinality(DOMAIN cases_db \cup {case_id}) <= MaxCases
             /\ cases_db' = Put(cases_db, case_id,
                                create_case(case_id, user_id, "Alice",
                                            "ApprovedForProduction", clock))
    /\ op' = "create"
    /\ returned' = NoReturn
    /\ UNCHANGED <<user_sessions, clock, script, threads, engineVars>>

\* the statuses the requests to /update-case-status name
RequestedStatuses == {"CasePlanningComplete", "FitConfirmed_FullCase"}

\* POST /update-case-status with a case_id and a status
UpdateCaseStatus ==
    /\ \E case_id \in DOMAIN cases_db, status \in RequestedStatuses :
         cases_db' = Put(cases_db, case_id, Put(cases_db[case_id], "status", status))
    /\ op' = "update_status"
    /\ returned' = NoReturn
    /\ UNCHANGED <<user_sessions, clock, script, threads, engineVars>>

\* a row of the Customers sheet under its default headers, and one of a sheet
\* that has a case_id column as well
CustomerRow == [dentist_name |-> "Dr. Sarah Johnson", phone |-> "+1234567890"]

CustomerRowOfCase == [case_id |-> TheCaseId, dentist_name |-> "Dr. Sarah Johnson", phone |-> "+1234567890"]

\* cases_db[case_id].update(customer), on {} when the id is not stored
sync_customer(store, customer) ==
    LET case_id == Get(customer, "case_id", None)
        stored == IF case_id \in DOMAIN store THEN store[case_id] ELSE EmptyDict
    IN  IF TruthyId(case_id) THEN Put(store, case_id, customer @@ stored) ELSE store

\* POST /sync-customers
SyncCustomers ==
    /\ \E customer \in {CustomerRow, CustomerRowOfCase} :
         cases_db' = sync_customer(cases_db, customer)
    /\ op' = "sync"
    /\ returned' = NoReturn
    /\ UNCHANGED <<user_sessions, clock, script, threads, engineVars>>

WebNext ==
    \/ \E th \in ThreadIds : StartProductionCompute(th)
    \/ \E th \in ThreadIds : StartProductionPersist(th)
    \/ \E th \in ThreadIds : ProcessMessageCompute(th)
    \/ \E th \in ThreadIds : ProcessMessagePersist(th)
    \/ Tick

SpecWeb == WebInit /\ [][WebNext]_vars

\* what.py with all of its endpoints, serving one engine request at a time
ServedOneByOne == {"request-1"}

AdminNext ==
    \/ \E th \in ServedOneByOne : StartProductionCompute(th)
    \/ \E th \in ServedOneByOne : StartProductionPersist(th)
    \/ \E th \in ServedOneByOne : ProcessMessageCompute(th)
    \/ \E th \in ServedOneByOne : ProcessMessagePersist(th)
    \/ CreateCase
    \/ UpdateCaseStatus
    \/ SyncCustomers
    \/ Tick

\* the stores when the application starts (what.py lines 34-35)
AdminInit ==
    /\ EngineUnused
    /\ cases_db = EmptyDict
    /\ user_sessions = EmptyDict
    /\ clock = 1
    /\ script = NoScript
    /\ op = "none"
    /\ threads = [th \in ThreadIds |-> IdleThread]
    /\ returned = NoReturn

SpecAdmin == AdminInit /\ [][AdminNext]_vars

\* ------------------------------------------------------------------------
\* Vocabulary of the properties
\* ------------------------------------------------------------------------

\* ------------------------------------------------------------------------
\* The web application asked again and again to start production
\* ------------------------------------------------------------------------

\* the stores after /create-case has stored a Case in the status the request
\* gave, any string the caller likes; the owner has written before, or not yet
ProductionInit ==
    /\ EngineUnused
    /\ \E status \in DeclaredStatuses \cup OtherStatuses, owner \in Users, patient_name \in {"Alice", None} :
           /\ cases_db = [c \in {TheCaseId} |->
                             create_case(TheCaseId, owner, patient_name, status, 1)]
           /\ user_sessions \in {EmptyDict, [u \in {owner} |-> new_session(owner, 1)]}
    /\ clock = 1
    /\ script = NoScript
    /\ op = "none"
    /\ threads = [th \in ThreadIds |-> IdleThread]
    /\ returned = NoReturn

\* POST /start-production, one request at a time
ProductionNext ==
    \/ \E th \in ServedOneByOne : StartProductionCompute(th)
    \/ \E th \in ServedOneByOne : StartProductionPersist(th)
    \/ Tick

SpecProduction == ProductionInit /\ [][ProductionNext]_vars

\* ------------------------------------------------------------------------
\* The web application a day after the dentist wrote
\* ------------------------------------------------------------------------

\* the statuses start_production has a row for, and one it has none for
NotifiedStatuses ==
    {"ApprovedForProduction", "CasePlanningComplete", "FitConfirmed_PhaseWise",
     "FitConfirmed_FullCase", "AwaitingDelivery"}

\* the stores with one Case; its owner has never written, or wrote last at
\* second 1 or 2, and the clock is a day and a second or two later
NotifyInit ==
    /\ EngineUnused
    /\ \E status \in NotifiedStatuses, owner \in Users :
           /\ cases_db = [c \in {TheCaseId} |->
                             create_case(TheCaseId, owner, "Alice", status, 1)]
           /\ \E last_message_time \in 1..2 :
                  user_sessions \in {EmptyDict,
                      [u \in {owner} |-> new_session(owner, last_message_time)]}
    /\ clock \in {Window + 1, Window + 2}
    /\ script = NoScript
    /\ op = "none"
    /\ threads = [th \in ThreadIds |-> IdleThread]
    /\ returned = NoReturn

\* POST /start-production and POST /webhook, one request at a time
NotifyNext ==
    \/ \E th \in ServedOneByOne : StartProductionCompute(th)
    \/ \E th \in ServedOneByOne : StartProductionPersist(th)
    \/ \E th \in ServedOneByOne : ProcessMessageCompute(th)
    \/ \E th \in ServedOneByOne : ProcessMessagePersist(th)

SpecNotify == NotifyInit /\ [][NotifyNext]_vars

\* ------------------------------------------------------------------------
\* The Session Router: server.py behind the Twilio webhook
\* The helpers server.py imports from mainlogic without src/mainlogic.py
\* defining them (ls, sl, upload_drive, create_tools without arguments) are
\* taken to return. A reply of a chain is a sequence of characters where the
\* code looks at its letters, and a sequence of phrases elsewhere; x in reply is Contains on either.
\* ------------------------------------------------------------------------

RouterUser == "whatsapp:+917801833662"

RouterStages ==
    {"auth", "intent", "new_aligner", "awaiting_images", "awaiting_quote",
     "scheduling_quote_confirm", "fetching_name", "choose", "scheduling_appointment",
     "fetch_scan", "scan_confirm", "awaiting_fit_confirmation", "tracking_case",
     "end_session"}

\* manual_test = False in the __main__ block
manual_test == FALSE

\* the most media one message carries, and the most images a Session counts
MaxMedia == 2

MaxImages == 2

TxtDone == <<"D", "O", "N", "E">>

TxtDoneMixed == <<"D", "o", "n", "e">>

kw_done == <<"d", "o", "n", "e">>

\* the quote of a case nobody has priced yet
NoQuote == "..."

\* the record initialize_user_session sets; the conversation memories are not
\* part of the model
initialize_user_session(user_id) ==
    [current_stage |-> "auth", last_question |-> "", image_count |-> 0,
     expected_images |-> 0, calendar_service |-> TRUE]

\* session[k] = None followed by update_db: Firebase deletes a child that is
\* updated to null
DeleteKey(session, k) == [x \in (DOMAIN session) \ {k} |-> session[x]]

\* the working session, the message as the later stages see it, and how the
\* function went on: "on", "return" (a return before update_db) or "raise"
Step(session, message_body, went) ==
    [session |-> session, message_body |-> message_body, went |-> went]

\* caseid = str(uuid.uuid4()); session[caseid] = {}; session['active'] = caseid;
\* session[caseid]['quote'] = "..."
open_case(session, stage) ==
    Put(Put(Put(session, "current_stage", stage), "active", "case-uuid"),
        "quote", NoQuote)

\* stage 'auth'
auth_stage(session, message_body, llm) ==
    IF llm.raises THEN Step(session, message_body, "return")
    ELSE IF Contains(llm.text, <<"Registration successful">>)
    THEN Step(Put(session, "current_stage", "intent"), message_body, "on")
    ELSE Step(session, message_body, "on")

\* stage 'intent'
intent_stage(session, message_body, llm) ==
    IF llm.raises THEN Step(session, message_body, "return")
    ELSE IF Contains(llm.text, <<"New Aligner Case Inquiry">>)
    THEN Step(Put(session, "current_stage", "new_aligner"), message_body, "on")
    ELSE Step(session, message_body, "on")

\* stage 'new_aligner'
new_aligner_stage(session, message_body, llm) ==
    IF llm.raises THEN Step(session, message_body, "raise")
    ELSE IF Contains(llm.text, <<"request_quotation">>)
    THEN Step(open_case(session, "awaiting_images"), message_body, "on")
    ELSE IF Contains(llm.text, <<"submit_case">>)
    THEN Step(open_case(session, "fetching_name"), message_body, "on")
    ELSE Step(session, message_body, "on")

\* awaiting_images_stage counting every medium of the message: the defect
\* C38 detects
awaiting_images_stage_counts_all(session, message_body, num_media, forwarded) ==
    IF num_media > 0
    THEN Step(Put(session, "image_count", session.image_count + num_media),
              message_body, "on")
    ELSE IF Lower(message_body) = kw_done /\ (session.image_count > 0 \/ manual_test)
    THEN Step(Put(Put(session, "current_stage", "awaiting_quote"), "image_count", 0),
              message_body, "on")
    ELSE Step(session, message_body, "on")

\* stage 'awaiting_images'; forwarded is the number of media for which
\* forward_media_to_number returned True
awaiting_images_stage(session, message_body, num_media, forwarded) ==
    IF num_media > 0
    THEN Step(Put(session, "image_count", session.image_count + forwarded),
              message_body, "on")
    ELSE IF Lower(message_body) = kw_done /\ (session.image_count > 0 \/ manual_test)
    THEN Step(Put(Put(session, "current_stage", "awaiting_quote"), "image_count", 0),
              message_body, "on")
    ELSE Step(session, message_body, "on")

\* stage 'awaiting_quote': session[session["active"]]["quote"]
awaiting_quote_stage(session, message_body) ==
    IF "active" \notin DOMAIN session THEN Step(session, message_body, "raise")
    ELSE IF session.quote # NoQuote \/ manual_test
    THEN Step(Put(Put(session, "current_stage", "scheduling_quote_confirm"),
                  "last_question", "the quotation is ..., please let us know"),
              message_body, "on")
    ELSE Step(session, message_body, "on")

\* stage 'scheduling_quote_confirm'
scheduling_quote_confirm_stage(session, message_body, llm) ==
    IF "last_question" \notin DOMAIN session \/ llm.raises
    THEN Step(session, message_body, "raise")
    ELSE
    LET confirmation_response == Lower(llm.text)
        asked == DeleteKey(session, "last_question")
    IN  IF Contains(confirmation_response, kw_no)
        THEN Step(Put(asked, "current_stage", "end_session"), message_body, "on")
        ELSE IF Contains(confirmation_response, kw_yes)
        THEN Step(Put(asked, "current_stage", "fetching_name"), message_body, "on")
        ELSE Step(asked, message_body, "on")

\* the mark the name chain sets before a question of its own
Backtick == "backtick"

\* stage 'fetching_name'
fetching_name_stage(session, message_body, llm) ==
    IF llm.raises THEN Step(session, message_body, "raise")
    ELSE IF Contains(llm.text, <<Backtick>>) THEN Step(session, message_body, "on")
    ELSE IF "active" \notin DOMAIN session THEN Step(session, message_body, "raise")
    ELSE Step(Put(session, "current_stage", "choose"), <<"unrelated">>, "on")

\* the first if/elif chain of handle_bot_logic
first_chain(session, message_body, num_media, forwarded, llm) ==
    CASE session.current_stage = "auth" -> auth_stage(session, message_body, llm)
      [] session.current_stage = "intent" -> intent_stage(session, message_body, llm)
      [] session.current_stage = "new_aligner" ->
             new_aligner_stage(session, message_body, llm)
      [] session.current_stage = "awaiting_images" ->
             awaiting_images_stage(session, message_body, num_media, forwarded)
      [] session.current_stage = "awaiting_quote" ->
             awaiting_quote_stage(session, message_body)
      [] session.current_stage = "scheduling_quote_confirm" ->
             scheduling_quote_confirm_stage(session, message_body, llm)
      [] session.current_stage = "fetching_name" ->
             fetching_name_stage(session, message_body, llm)
      [] OTHER -> Step(session, message_body, "on")

\* if session['current_stage'] == 'choose'
choose_stage(step, llm) ==
    IF step.went # "on" \/ step.session.current_stage # "choose" THEN step
    ELSE IF llm.raises THEN Step(step.session, step.message_body, "raise")
    ELSE IF Contains(llm.text, <<"submit_scan">>)
    THEN \* the reply reads session[session['active']]['name']
         IF "active" \notin DOMAIN step.session
         THEN Step(step.session, step.message_body, "raise")
         ELSE Step(Put(step.session, "current_stage", "fetch_scan"),
                   step.message_body, "on")
    ELSE IF Contains(llm.text, <<"schedule_scan">>)
    THEN Step(Put(step.session, "current_stage", "scheduling_appointment"),
              <<"need to schedule scan">>, "on")
    ELSE step

\* stage 'tracking_case'
tracking_case_stage(session) == Put(session, "current_stage", "end_session")

\* end_session_stage opening a new conversation: the defect C39 detects
end_session_stage_restarts(session) == Put(session, "current_stage", "intent")

\* stage 'end_session': a reply and no assignment
end_session_stage(session) == session

\* the if/elif chain from 'scheduling_appointment' to 'end_session'
last_chain(step, llm) ==
    IF step.went # "on" THEN step
    ELSE
    CASE step.session.current_stage = "fetch_scan" ->
             \* session['stl_file_count'] and session['scan_recieved'] are
             \* read on every path and set by nothing before
             Step(step.session, step.message_body, "raise")
      [] step.session.current_stage = "scan_confirm" ->
             IF llm.raises \/ "active" \notin DOMAIN step.session
             THEN Step(step.session, step.message_body, "raise")
             ELSE IF Contains(llm.text, <<"express">>) \/ Contains(llm.text, <<"normal">>)
             THEN step
             ELSE \* session[session['active']]['status'] is set by nothing
                  Step(step.session, step.message_body, "raise")
      [] step.session.current_stage = "awaiting_fit_confirmation" ->
             \* session.get('active_case_for_confirmation') is set by nothing
             Step(Put(step.session, "current_stage", "intent"), step.message_body, "on")
      [] step.session.current_stage = "tracking_case" ->
             Step(tracking_case_stage(step.session), step.message_body, "on")
      [] step.session.current_stage = "end_session" ->
             Step(end_session_stage(step.session), step.message_body, "on")
      [] OTHER -> step

\* handle_bot_logic: whether update_db ran, and the session it wrote. llm is
\* what the chain of the stage does, choice what choose_chain does when the
\* stage gets there from fetching_name
handle_bot_logic(session, message_body, num_media, forwarded, llm, choice) ==
    IF ~session.calendar_service THEN [stored |-> FALSE, session |-> session]
    ELSE
    LET first == first_chain(session, message_body, num_media, forwarded, llm)
        chosen == choose_stage(first, IF session.current_stage = "choose"
                                      THEN llm ELSE choice)
        last == last_chain(chosen, llm)
    IN  [stored |-> last.went = "on", session |-> last.session]

\* what the chain of a stage may answer
RouterReplies(stage) ==
    CASE stage = "auth" -> {<<"Registration successful">>, <<"Please share your details">>}
      [] stage = "intent" -> {<<"New Aligner Case Inquiry">>, <<"Unclear Intent">>}
      [] stage = "new_aligner" -> {<<"request_quotation">>, <<"submit_case">>, <<"other">>}
      [] stage = "scheduling_quote_confirm" ->
             {TxtYes, TxtYesUpper, TxtNo, TxtUnknown, TxtUnknownUpper, TxtMaybe}
      [] stage = "fetching_name" -> {<<"Alice">>, <<Backtick, "Please share the full name">>}
      [] stage = "choose" -> {<<"submit_scan">>, <<"schedule_scan">>, <<"unrelated">>}
      [] stage = "scan_confirm" -> {<<"express">>, <<"normal">>, <<"unrelated">>}
      [] OTHER -> {}

RouterOracle(stage) ==
    IF RouterReplies(stage) = {} THEN {NotConsulted}
    ELSE {LlmRaises} \cup {LlmSays(reply) : reply \in RouterReplies(stage)}

RouterMessages == {TxtHello, TxtDone, TxtDoneMixed, TxtYes}

\* the sessions Firebase may hold for a user
RouterSessions ==
    { [current_stage |-> stage, image_count |-> image_count, expected_images |-> 0,
       calendar_service |-> TRUE]
        @@ (IF asked THEN [last_question |-> ""] ELSE EmptyDict)
        @@ (IF quote = None THEN EmptyDict ELSE [active |-> "case-uuid", quote |-> quote]) :
      stage \in RouterStages, image_count \in 0..1, asked \in BOOLEAN,
      quote \in {None, NoQuote, "12 aligners"} }

RouterInit ==
    /\ EngineUnused
    /\ cases_db = EmptyDict
    /\ user_sessions \in {EmptyDict} \cup {[u \in {RouterUser} |-> s] : s \in RouterSessions}
    /\ clock = 1
    /\ script = NoScript
    /\ op = "none"
    /\ threads = NoThreads
    /\ returned = NoReturn

\* the values of the Twilio request
WebhookRequest(sender_id, incoming_msg, num_media, forwarded) ==
    [action_type |-> "whatsapp", case_id |-> None, user_id |-> sender_id,
     message_body |-> incoming_msg, num_media |-> num_media, forwarded |-> forwarded]

\* whatsapp_webhook for a sender without a session: initialize_user_session
FirstContact ==
    /\ RouterUser \notin DOMAIN user_sessions
    /\ \E incoming_msg \in RouterMessages :
         request' = WebhookRequest(RouterUser, incoming_msg, 0, 0)
    /\ user_sessions' = Put(user_sessions, RouterUser, initialize_user_session(RouterUser))
    /\ llm_reply' = NotConsulted
    /\ op' = "initialize"
    /\ UNCHANGED <<pc, current_case_data, current_user_session, result, repeated>>
    /\ UNCHANGED <<cases_db, clock, script, threads, returned>>

\* whatsapp_webhook for a sender with a session: handle_bot_logic
InboundMessage ==
    /\ RouterUser \in DOMAIN user_sessions
    /\ \E incoming_msg \in RouterMessages, num_media \in 0..MaxMedia :
         \E forwarded \in 0..num_media :
           LET session == user_sessions[RouterUser]
           IN  \E llm \in RouterOracle(session.current_stage) :
                 \E choice \in (IF session.current_stage = "fetching_name"
                                THEN RouterOracle("choose") ELSE {NotConsulted}) :
                   LET r == handle_bot_logic(session, incoming_msg, num_media,
                                             forwarded, llm, choice)
                   IN  /\ r.session.image_count <= MaxImages
                       /\ user_sessions' = IF r.stored
                                           THEN Put(user_sessions, RouterUser, r.session)
                                           ELSE user_sessions
                       /\ request' = WebhookRequest(RouterUser, incoming_msg,
                                                    num_media, forwarded)
                       /\ llm_reply' = llm
    /\ op' = "whatsapp"
    /\ UNCHANGED <<pc, current_case_data, current_user_session, result, repeated>>
    /\ UNCHANGED <<cases_db, clock, script, threads, returned>>

RouterNext == FirstContact \/ InboundMessage

SpecRouter == RouterInit /\ [][RouterNext]_vars

SuppliedCase == Supplied(current_case_data)

SuppliedSession == Supplied(current_user_session)

IsEmpty(d) == DOMAIN d = {}

\* key k is present in both dicts with one value, or absent from both
SameKey(a, b, k) ==
    /\ (k \in DOMAIN a) <=> (k \in DOMAIN b)
    /\ k \in DOMAIN a => a[k] = b[k]

\* the dicts have the same keys with the same values
Identical(a, b) ==
    /\ DOMAIN a = DOMAIN b
    /\ \A k \in DOMAIN a : a[k] = b[k]

AuditKeys == {"last_workflow_run", "last_action_type", "last_activity"}

\* the dicts differ at most in the audit stamps
SameButAudit(a, b) ==
    /\ DOMAIN a \ AuditKeys = DOMAIN b \ AuditKeys
    /\ \A k \in DOMAIN a \ AuditKeys : a[k] = b[k]

Done == pc = "done"

IsStart == Done /\ request.action_type = "start_production"

IsMessage == Done /\ request.action_type = "process_message"

\* the Session snapshot is in the stage
InStage(stage) ==
    /\ "current_stage" \in DOMAIN SuppliedSession
    /\ SuppliedSession.current_stage = stage

HasActiveCase ==
    /\ "active_case" \in DOMAIN SuppliedSession
    /\ SuppliedSession.active_case \notin {None, ""}

\* process_message ran in the stage and chain.run returned one of the answers
Answered(stage, answers) ==
    /\ IsMessage
    /\ InStage(stage)
    /\ llm_reply # NotConsulted
    /\ ~llm_reply.raises
    /\ llm_reply.text \in answers

\* the patient name as the stage handlers show it
ShownPatient == IF "patient_name" \in DOMAIN SuppliedCase
                THEN SuppliedCase.patient_name ELSE "your patient"

OneMessage(content) ==
    result.messages_to_send = <<[recipient_id |-> request.user_id, content |-> content]>>

CaseStatusUnchanged == SameKey(result.updated_case_data, SuppliedCase, "status")

StageUnchanged == SameKey(result.updated_user_session, SuppliedSession, "current_stage")

\* ------------------------------------------------------------------------
\* C1
\* ------------------------------------------------------------------------

DeclaredSuccessor ==
    {<<"ApprovedForProduction", "CasePlanningComplete">>,
     <<"CasePlanningComplete", "AwaitingDelivery">>,
     <<"AwaitingDelivery", "AwaitingFitConfirmation">>,
     <<"AwaitingFitConfirmation", "FitConfirmed_PhaseWise">>,
     <<"AwaitingFitConfirmation", "FitConfirmed_FullCase">>,
     <<"AwaitingFitConfirmation", "FitIssueReported">>,
     <<"FitConfirmed_PhaseWise", "Dispatching_PhaseWise">>,
     <<"FitConfirmed_FullCase", "Dispatching_FullCase">>}

\* C1: whenever an invocation changes the status of a Case that has a declared
\* status, the new status is a declared successor of that status.
C1_StatusMovesToDeclaredSuccessor ==
    (Done /\ Get(SuppliedCase, "status", None) \in DeclaredStatuses) =>
        \/ CaseStatusUnchanged
        \/ <<Get(SuppliedCase, "status", None),
             Get(result.updated_case_data, "status", None)>> \in DeclaredSuccessor

\* ------------------------------------------------------------------------
\* C2, C3
\* ------------------------------------------------------------------------

ProductionTable ==
    [ApprovedForProduction |-> "CasePlanningComplete",
     CasePlanningComplete |-> "AwaitingDelivery",
     FitConfirmed_PhaseWise |-> "Dispatching_PhaseWise",
     FitConfirmed_FullCase |-> "Dispatching_FullCase"]

\* start_production with a case_id on a non-empty Case
ValidStart ==
    /\ IsStart
    /\ request.case_id \notin {None, ""}
    /\ ~IsEmpty(SuppliedCase)

HasProductionRow == Get(SuppliedCase, "status", None) \in DOMAIN ProductionTable

\* the patient name as start_production shows it: the name of the Case, and a
\* placeholder when the Case has none
ProductionPatient ==
    IF "patient_name" \notin DOMAIN SuppliedCase THEN "Unknown Patient"
    ELSE IF SuppliedCase.patient_name = None THEN "None"
    ELSE SuppliedCase.patient_name

\* C2: start_production on a non-empty Case with a case_id follows the table
\* (ApprovedForProduction -> CasePlanningComplete, CasePlanningComplete ->
\* AwaitingDelivery with delivery_status "In Transit", FitConfirmed_X ->
\* Dispatching_X), returns Success and emits exactly one message, addressed to
\* the Case's user_id and containing the patient name.
C2_ProductionTable ==
    (ValidStart /\ HasProductionRow) =>
        /\ result.status = "Success"
        /\ "status" \in DOMAIN result.updated_case_data
        /\ result.updated_case_data.status = ProductionTable[SuppliedCase.status]
        /\ SuppliedCase.status = "CasePlanningComplete" =>
               /\ "delivery_status" \in DOMAIN result.updated_case_data
               /\ result.updated_case_data.delivery_status = TxtInTransit
        /\ Len(result.messages_to_send) = 1
        /\ result.messages_to_send[1].recipient_id = SuppliedCase.user_id
        /\ \E i \in DOMAIN result.messages_to_send[1].content :
               result.messages_to_send[1].content[i] = ProductionPatient

C2_Witness ==
    /\ ValidStart
    /\ HasProductionRow
    /\ SuppliedCase.status = "CasePlanningComplete"
    /\ "patient_name" \in DOMAIN SuppliedCase
    /\ SuppliedCase.patient_name = "Alice"
    /\ result.updated_case_data.status = "AwaitingDelivery"
    /\ Len(result.messages_to_send) = 1

\* C3: start_production on a Case whose status has no row of the table returns
\* NoAction, leaves status and delivery_status as they were and emits nothing.
C3_NoRowIsNoAction ==
    (ValidStart /\ ~HasProductionRow) =>
        /\ result.status = "NoAction"
        /\ result.error = None
        /\ CaseStatusUnchanged
        /\ SameKey(result.updated_case_data, SuppliedCase, "delivery_status")
        /\ result.messages_to_send = <<>>

C3_Witness ==
    /\ ValidStart
    /\ "status" \in DOMAIN SuppliedCase
    /\ SuppliedCase.status = "AwaitingDelivery"
    /\ result.status = "NoAction"

\* ------------------------------------------------------------------------
\* C4
\* ------------------------------------------------------------------------

\* a required argument or snapshot is missing
ValidationError ==
    \/ /\ IsStart
       /\ request.case_id \in {None, ""} \/ IsEmpty(SuppliedCase)
    \/ /\ IsMessage
       /\ \/ request.user_id \in {None, ""}
          \/ request.message_body \in {NoneText, <<>>}
          \/ IsEmpty(SuppliedSession)

\* C4 as stated: on a validation error the result is Error with a non-empty error
\* and no messages, and the returned Case and Session are absent or identical to
\* the supplied snapshots.
C4_ErrorReturnsSnapshotsIdentical ==
    ValidationError =>
        /\ result.status = "Error"
        /\ result.error # None
        /\ result.messages_to_send = <<>>
        /\ \/ IsEmpty(result.updated_case_data)
           \/ Identical(result.updated_case_data, SuppliedCase)
        /\ \/ IsEmpty(result.updated_user_session)
           \/ Identical(result.updated_user_session, SuppliedSession)

\* C4 amended: on a validation error the result is Error with a non-empty error
\* and no messages, and the returned Case and Session equal the supplied
\* snapshots except for the audit stamps, which a non-empty Case and a non-empty
\* Session still receive.
C4_ErrorChangesOnlyAuditStamps ==
    ValidationError =>
        /\ result.status = "Error"
        /\ result.error # None
        /\ result.messages_to_send = <<>>
        /\ SameButAudit(result.updated_case_data, SuppliedCase)
        /\ SameButAudit(result.updated_user_session, SuppliedSession)
        /\ ~IsEmpty(SuppliedCase) =>
               /\ result.updated_case_data.last_workflow_run = result.workflow_timestamp
               /\ result.updated_case_data.last_action_type = request.action_type
        /\ ~IsEmpty(SuppliedSession) =>
               result.updated_user_session.last_activity = result.workflow_timestamp

C4_Witness ==
    /\ ValidationError
    /\ IsMessage
    /\ request.message_body = <<>>
    /\ request.user_id # None
    /\ ~IsEmpty(SuppliedCase)
    /\ ~IsEmpty(SuppliedSession)
    /\ result.status = "Error"
    /\ "last_workflow_run" \in DOMAIN result.updated_case_data

\* ------------------------------------------------------------------------
\* C5
\* ------------------------------------------------------------------------

CaseScopedStages ==
    {"awaiting_delivery", "awaiting_fit_confirmation", "awaiting_dispatch_choice"}

\* C5: process_message in a case-scoped stage whose active_case names a Case that
\* the snapshot does not hold returns Error with a non-empty error, emits nothing,
\* writes nothing into the returned Case and leaves the stage, whatever the oracle
\* answers.
C5_AbsentCaseIsError ==
    (/\ IsMessage
     /\ \E stage \in CaseScopedStages : InStage(stage)
     /\ HasActiveCase
     /\ IsEmpty(SuppliedCase)) =>
        /\ result.status = "Error"
        /\ result.error # None
        /\ result.messages_to_send = <<>>
        /\ IsEmpty(result.updated_case_data)
        /\ StageUnchanged

\* ------------------------------------------------------------------------
\* C6, C7, C8
\* ------------------------------------------------------------------------

\* the answers that hold "yes" in some letter case
YesAnswers == {TxtYes, TxtYesUpper, TxtYesPadded, TxtYesVerbose, TxtNotYes}

\* the label Unknown, in two letter cases
UnknownAnswers == {TxtUnknown, TxtUnknownUpper}

\* the answers that hold neither "yes" nor "no" nor the label Unknown
FitUnrelatedAnswers ==
    {TxtMaybe, TxtPhaseWise, TxtFullCase, TxtPhaseHyphen, TxtBothChoices}

\* C6: in awaiting_fit_confirmation, when the oracle answers Unknown (any letter
\* case) or a text matching neither Yes nor No, Case.status and the stage are
\* unchanged and exactly one re-prompt is emitted.
C6_UnknownFitReprompts ==
    Answered("awaiting_fit_confirmation", UnknownAnswers \cup FitUnrelatedAnswers) =>
        /\ CaseStatusUnchanged
        /\ StageUnchanged
        /\ OneMessage(RepromptFit)

\* C7: in awaiting_fit_confirmation with an active case, for every answer that
\* holds "yes" in some letter case the stage becomes awaiting_dispatch_choice,
\* Case.status is unchanged and exactly one delivery-mode prompt is emitted.
C7_YesBranch ==
    Answered("awaiting_fit_confirmation", YesAnswers) =>
        /\ result.status = "Success"
        /\ result.updated_user_session.current_stage = "awaiting_dispatch_choice"
        /\ CaseStatusUnchanged
        /\ OneMessage(PromptDeliveryMode(ShownPatient))

C7_Witness ==
    /\ Answered("awaiting_fit_confirmation", {TxtYesVerbose})
    /\ HasActiveCase
    /\ ~IsEmpty(SuppliedCase)
    /\ result.updated_user_session.current_stage = "awaiting_dispatch_choice"

\* the No branch ran: it alone writes fit_issue_reported_at and sends the
\* escalation notice
NoBranchFired ==
    /\ "fit_issue_reported_at" \in DOMAIN result.updated_case_data
    /\ result.updated_case_data.status = "FitIssueReported"
    /\ result.updated_user_session.current_stage = "general"
    /\ OneMessage(EscalationNotice(ShownPatient))

\* C8: in awaiting_fit_confirmation, of the labels Yes, No and Unknown the No
\* branch (Case.status FitIssueReported, stage general, one escalation message)
\* fires for No and for no other label.
C8_NoBranchOnlyForNo ==
    Answered("awaiting_fit_confirmation", {TxtYes, TxtNo, TxtUnknown}) =>
        (NoBranchFired <=> llm_reply.text = TxtNo)

\* ------------------------------------------------------------------------
\* C9, C10
\* ------------------------------------------------------------------------

\* the answers that match neither PhaseWise nor FullCase
DispatchUnmatchedAnswers ==
    LlmAnswers \ {TxtPhaseWise, TxtFullCase, TxtBothChoices}

C10_UnknownChoiceReprompts ==
    Answered("awaiting_dispatch_choice", DispatchUnmatchedAnswers) =>
        /\ result.status = "Success"
        /\ result.error = None
        /\ CaseStatusUnchanged
        /\ StageUnchanged
        /\ OneMessage(RepromptDispatch)

C10_Witness ==
    /\ Answered("awaiting_dispatch_choice", {TxtUnknown})
    /\ ~IsEmpty(SuppliedCase)
    /\ OneMessage(RepromptDispatch)

\* ------------------------------------------------------------------------
\* C11, C12
\* ------------------------------------------------------------------------

\* process_message ran with its required arguments and a Session
ValidMessage == IsMessage /\ ~ValidationError

\* awaiting_delivery with an active case that the snapshot holds
DeliveryInquiry ==
    /\ ValidMessage
    /\ InStage("awaiting_delivery")
    /\ HasActiveCase
    /\ ~IsEmpty(SuppliedCase)

\* "delivered" in the letter cases of the model
DeliveredTexts == {TxtDelivered, TxtDeliveredUpper}

\* C11: in awaiting_delivery with an active case present whose delivery_status is
\* "delivered" in any letter case, process_message sets Case.status to
\* AwaitingFitConfirmation and the stage to awaiting_fit_confirmation and emits
\* one fit-check prompt, whatever the (non-empty) message body.
C11_DeliveredMovesToFitConfirmation ==
    (DeliveryInquiry /\ Get(SuppliedCase, "delivery_status", AbsentText) \in DeliveredTexts) =>
        /\ result.status = "Success"
        /\ result.updated_case_data.status = "AwaitingFitConfirmation"
        /\ result.updated_user_session.current_stage = "awaiting_fit_confirmation"
        /\ OneMessage(PromptFitCheck(ShownPatient))

C11_Witness ==
    /\ DeliveryInquiry
    /\ Get(SuppliedCase, "status", None) = "AwaitingDelivery"
    /\ Get(SuppliedCase, "delivery_status", AbsentText) = TxtDeliveredUpper
    /\ request.message_body = TxtThanks
    /\ result.updated_case_data.status = "AwaitingFitConfirmation"
    /\ result.updated_user_session.current_stage = "awaiting_fit_confirmation"

\* C12: in awaiting_delivery with an active case whose delivery_status is not
\* "delivered", process_message leaves Case.status and the stage unchanged and
\* emits exactly one message echoing the delivery_status (the placeholder
\* "Info not available" when the Case has none).
C12_UndeliveredEchoesStatus ==
    (DeliveryInquiry /\ Get(SuppliedCase, "delivery_status", AbsentText) \notin DeliveredTexts) =>
        /\ result.status = "Success"
        /\ CaseStatusUnchanged
        /\ StageUnchanged
        /\ OneMessage(EchoDelivery(ShownPatient,
                                   IF "delivery_status" \in DOMAIN SuppliedCase
                                   THEN SuppliedCase.delivery_status ELSE TxtInfoNA))

C12_Witness ==
    /\ DeliveryInquiry
    /\ Get(SuppliedCase, "delivery_status", AbsentText) = TxtInTransit
    /\ request.message_body = TxtAnyUpdate
    /\ Len(result.messages_to_send) = 1
    /\ \E i \in 1..Len(result.messages_to_send[1].content) :
           SubSeq(result.messages_to_send[1].content, i, i + Len(TxtInTransit) - 1) = TxtInTransit

\* ------------------------------------------------------------------------
\* C13, C14
\* ------------------------------------------------------------------------

\* the dicts differ at most in the given keys
SameBut(a, b, keys) ==
    /\ DOMAIN a \ keys = DOMAIN b \ keys
    /\ \A k \in DOMAIN a \ keys : a[k] = b[k]

\* stage general, or a Session without current_stage
GeneralInquiry ==
    /\ ValidMessage
    /\ InStage("general") \/ "current_stage" \notin DOMAIN SuppliedSession

\* the reply of the first keyword group, in the order greeting, status, delivery,
\* help, that has a word in the message
CannedReply(message_body) ==
    CASE message_body = TxtHello -> ReplyGreeting
      [] message_body = TxtHiStatus -> ReplyGreeting
      [] message_body = TxtAnyUpdate -> ReplyStatus
      [] message_body = TxtDeliveryUpdate -> ReplyStatus
      [] message_body = TxtHelpTracking -> ReplyDelivery
      [] message_body = TxtSupport -> ReplyHelp
      [] message_body = TxtThanks -> ReplyDefault

\* C13 as stated: in stage general (or without current_stage) process_message
\* returns Success with the one canned reply of the first matching keyword group
\* and nothing in the Case or the Session changes beyond the activity timestamp.
C13_GeneralChangesOnlyActivity ==
    GeneralInquiry =>
        /\ result.status = "Success"
        /\ OneMessage(CannedReply(request.message_body))
        /\ Identical(result.updated_case_data, SuppliedCase)
        /\ SameBut(result.updated_user_session, SuppliedSession, {"last_activity"})

\* C13 amended: in stage general (or without current_stage) process_message
\* returns Success with the one canned reply of the first matching keyword group,
\* and the Case and the Session change in nothing but the audit stamps
\* (last_activity on the Session, last_workflow_run and last_action_type on a
\* supplied Case).
C13_GeneralChangesOnlyAuditStamps ==
    GeneralInquiry =>
        /\ result.status = "Success"
        /\ OneMessage(CannedReply(request.message_body))
        /\ SameBut(result.updated_case_data, SuppliedCase,
                   {"last_workflow_run", "last_action_type"})
        /\ SameBut(result.updated_user_session, SuppliedSession, {"last_activity"})

C13_Witness ==
    /\ GeneralInquiry
    /\ request.message_body = TxtHiStatus
    /\ ~IsEmpty(SuppliedCase)
    /\ OneMessage(ReplyGreeting)
    /\ result.updated_case_data.last_action_type = "process_message"

\* a Session whose current_stage is none of the four the engine handles
UnhandledStage ==
    /\ ValidMessage
    /\ "current_stage" \in DOMAIN SuppliedSession
    /\ SuppliedSession.current_stage \notin Stages

\* C14: process_message on a Session whose current_stage is none of
\* awaiting_delivery, awaiting_fit_confirmation, awaiting_dispatch_choice and
\* general returns NoAction with no message, leaves Case.status and the stage
\* unchanged and does not consult the oracle.
C14_UnhandledStageIsNoOp ==
    UnhandledStage =>
        /\ result.status = "NoAction"
        /\ result.error = None
        /\ result.messages_to_send = <<>>
        /\ CaseStatusUnchanged
        /\ StageUnchanged
        /\ ~result.llm_consulted
        /\ llm_reply = NotConsulted

C14_Witness ==
    /\ UnhandledStage
    /\ SuppliedSession.current_stage = "intent"
    /\ HasActiveCase
    /\ ~IsEmpty(SuppliedCase)
    /\ result.status = "NoAction"

\* ------------------------------------------------------------------------
\* C15
\* ------------------------------------------------------------------------

\* chain.run raised in the stage
OracleRaised(stage) ==
    /\ IsMessage
    /\ InStage(stage)
    /\ llm_reply = LlmRaises

\* C15: when chain.run raises in awaiting_fit_confirmation or
\* awaiting_dispatch_choice the engine returns (it does not raise) status Error
\* with a non-empty error and no message, and Case.status and the stage are
\* unchanged.
C15_OracleFailureIsError ==
    (OracleRaised("awaiting_fit_confirmation") \/ OracleRaised("awaiting_dispatch_choice")) =>
        /\ result.status = "Error"
        /\ result.error \notin {None, ""}
        /\ result.messages_to_send = <<>>
        /\ result.next_actions = <<>>
        /\ CaseStatusUnchanged
        /\ StageUnchanged

C15_Witness ==
    /\ OracleRaised("awaiting_dispatch_choice")
    /\ ~IsEmpty(SuppliedCase)
    /\ result.status = "Error"
    /\ result.error = ErrLlmDispatch

\* ------------------------------------------------------------------------
\* C16
\* ------------------------------------------------------------------------

Repeated == pc = "repeated"

\* the keys of a Case whose values start_production reads from the clock
ClockKeys ==
    {"last_workflow_run", "planning_started_at", "dispatched_at",
     "phase_production_started", "full_production_started"}

C17_ArgumentsKeepTheirValues ==
    [][/\ current_case_data' = current_case_data
       /\ current_user_session' = current_user_session]_vars

C17_Witness ==
    /\ IsMessage
    /\ ~IsEmpty(SuppliedCase)
    /\ ~IsEmpty(SuppliedSession)
    /\ ~CaseStatusUnchanged
    /\ ~StageUnchanged
    /\ "last_activity" \notin DOMAIN SuppliedSession
    /\ "last_activity" \in DOMAIN result.updated_user_session

\* ------------------------------------------------------------------------
\* C18
\* ------------------------------------------------------------------------

\* the place of a status in the progression
Rank ==
    [ApprovedForProduction |-> 0, CasePlanningComplete |-> 1, AwaitingDelivery |-> 2,
     AwaitingFitConfirmation |-> 3, FitIssueReported |-> 4,
     FitConfirmed_PhaseWise |-> 4, FitConfirmed_FullCase |-> 4,
     Dispatching_PhaseWise |-> 5, Dispatching_FullCase |-> 5]

StrictlyForward(old, new) ==
    /\ old \in DOMAIN Rank
    /\ new \in DOMAIN Rank
    /\ Rank[new] > Rank[old]

\* the step persisted the result of an engine invocation
EngineInvocationPersisted == op' \in {"start_production", "process_message"}

\* C18: every engine invocation whose result is persisted leaves the status of
\* each stored Case as it was or moves it strictly forward in the progression.
C18_StatusOnlyMovesForward ==
    [][EngineInvocationPersisted =>
           \A case_id \in DOMAIN cases_db :
               /\ case_id \in DOMAIN cases_db'
               /\ \/ cases_db'[case_id].status = cases_db[case_id].status
                  \/ StrictlyForward(cases_db[case_id].status,
                                     cases_db'[case_id].status)]_vars

\* a Case that the engine has taken through the whole progression
C18_Witness ==
    \E case_id \in DOMAIN cases_db :
        /\ cases_db[case_id].status = "Dispatching_PhaseWise"
        /\ "planning_started_at" \in DOMAIN cases_db[case_id]
        /\ "dispatched_at" \in DOMAIN cases_db[case_id]
        /\ "delivery_choice_confirmed_at" \in DOMAIN cases_db[case_id]
        /\ op = "start_production"

\* ------------------------------------------------------------------------
\* C19
\* ------------------------------------------------------------------------

\* the Session invariant on the supplied pair: the active case is named, the
\* snapshot holds it and it belongs to the Session's user
SessionInvariantHolds ==
    /\ HasActiveCase
    /\ ~IsEmpty(SuppliedCase)
    /\ Get(SuppliedCase, "user_id", None) = Get(SuppliedSession, "user_id", None)

\* C19: the engine moves a Session into another case-scoped stage only when
\* active_case is non-null and names an existing Case whose user_id is the
\* Session's user_id.
C19_CaseScopedStageNeedsOwnCase ==
    (/\ IsMessage
     /\ ~StageUnchanged
     /\ Get(result.updated_user_session, "current_stage", None) \in CaseScopedStages) =>
        SessionInvariantHolds

\* ------------------------------------------------------------------------
\* C20
\* ------------------------------------------------------------------------

\* the request of the thread writes the stores in this step
Persists(th) == threads[th].pc = "computed" /\ threads'[th].pc = "idle"

\* the request of the thread writes the Case it computed (what.py 114-117, 144-145)
WritesCase(th) ==
    /\ TruthyDict(threads[th].result.updated_case_data)
    /\ threads[th].case_id \in DOMAIN cases_db

\* the request of the thread writes the Session it computed (what.py 119)
WritesSession(th) ==
    /\ threads[th].kind = "process_message"
    /\ threads[th].user_id \in DOMAIN user_sessions

\* the records the request overwrites still have the status and the stage of
\* the snapshots its result was computed from
SnapshotsCurrent(th) ==
    /\ WritesCase(th) =>
           Get(cases_db[threads[th].case_id], "status", None)
               = Get(threads[th].fetched_case, "status", None)
    /\ WritesSession(th) =>
           Get(user_sessions[threads[th].user_id], "current_stage", None)
               = Get(threads[th].fetched_session, "current_stage", None)

\* C20: requests touching one Case or one Session are serialized: whenever a
\* request writes its result, no other request has changed Case.status or
\* Session.current_stage since the snapshot the result was computed from.
C20_WritesAreSerialized ==
    [][\A th \in ThreadIds : Persists(th) => SnapshotsCurrent(th)]_vars

\* ------------------------------------------------------------------------
\* C21
\* ------------------------------------------------------------------------

ChoiceStatuses == {"FitConfirmed_PhaseWise", "FitConfirmed_FullCase"}

StatusOf(store, case_id) ==
    IF case_id \in DOMAIN store THEN Get(store[case_id], "status", None) ELSE None

\* the step has put the Case into a status that has a production step of its own
ChoiceJustStored(case_id) ==
    /\ StatusOf(cases_db', case_id) \in ChoiceStatuses
    /\ StatusOf(cases_db', case_id) # StatusOf(cases_db, case_id)

\* C21: when the handling of a message has set a Case to FitConfirmed_PhaseWise
\* or FitConfirmed_FullCase, the orchestrator has re-invoked start_production
\* before it is done with the message: no handled message leaves a Case newly
\* in one of the two statuses.
C21_ChoiceIsDispatchedAtOnce ==
    [][op' = "process_message" =>
           \A case_id \in DOMAIN cases_db' : ~ChoiceJustStored(case_id)]_vars

\* ------------------------------------------------------------------------
\* C22
\* ------------------------------------------------------------------------

\* start_production has dispatched the training aligner of the Case and the
\* Case is waiting for the delivery
AwaitsDelivery(case) ==
    /\ Get(case, "status", None) = "AwaitingDelivery"
    /\ "dispatched_at" \in DOMAIN case

\* the Session of the owner is in awaiting_delivery on this Case
OwnerAsksAboutDelivery(case_id) ==
    LET owner == Get(cases_db[case_id], "user_id", None)
    IN  /\ owner \in DOMAIN user_sessions
        /\ Get(user_sessions[owner], "current_stage", None) = "awaiting_delivery"
        /\ Get(user_sessions[owner], "active_case", None) = case_id

\* C22: whenever a stored Case that start_production moved to AwaitingDelivery
\* is in that status, the Session of its owner is in stage awaiting_delivery
\* with the Case as its active case, so that the owner's next message reaches
\* handle_delivery_inquiry.
C22_AwaitingDeliveryIsRoutedToActionB ==
    \A case_id \in DOMAIN cases_db :
        AwaitsDelivery(cases_db[case_id]) => OwnerAsksAboutDelivery(case_id)

\* ------------------------------------------------------------------------
\* C23
\* ------------------------------------------------------------------------

\* the request is a start_production trigger for a Case whose stored record
\* is the persisted result of a start_production trigger
TriggerDeliveredAgain(th) ==
    /\ threads[th].kind = "start_production"
    /\ Get(threads[th].fetched_case, "last_action_type", None) = "start_production"

\* C23: a start_production trigger that arrives again after the result of the
\* first delivery was persisted causes no further transition: the status it
\* stores is the status it found.
C23_RepeatedTriggerChangesNothing ==
    [][\A th \in ThreadIds :
           (Persists(th) /\ TriggerDeliveredAgain(th)) =>
               StatusOf(cases_db', threads[th].case_id)
                   = Get(threads[th].fetched_case, "status", None)]_vars

\* ------------------------------------------------------------------------
\* C24
\* ------------------------------------------------------------------------

\* the orchestrator has handled a message and the engine returned Error
MessageEndedInError == op' = "process_message" /\ returned'.status = "Error"

\* every stored Case is stored with the status it had, and no Case was added
CasesKeepStatus ==
    /\ DOMAIN cases_db' = DOMAIN cases_db
    /\ \A case_id \in DOMAIN cases_db :
           StatusOf(cases_db', case_id) = StatusOf(cases_db, case_id)

\* every stored Session is stored with the stage and the active case it had
SessionsKeepStage ==
    \A user_id \in DOMAIN user_sessions :
        /\ user_id \in DOMAIN user_sessions'
        /\ SameKey(user_sessions'[user_id], user_sessions[user_id], "current_stage")
        /\ SameKey(user_sessions'[user_id], user_sessions[user_id], "active_case")

\* C24: when the engine returns Error for an inbound message, the orchestrator
\* stores no new Case and leaves Case.status, Session.current_stage and
\* Session.active_case of the stored records as they were.
C24_ErrorLeavesStoresInStage ==
    [][MessageEndedInError => (CasesKeepStatus /\ SessionsKeepStage)]_vars

\* the oracle failed on a message of a user whose Session is on a stored Case,
\* and the orchestrator has stored the result
C24_Witness ==
    /\ op = "process_message"
    /\ returned.status = "Error"
    /\ returned.oracle = LlmRaises
    /\ \E user_id \in DOMAIN user_sessions :
         /\ user_sessions[user_id].current_stage = "awaiting_fit_confirmation"
         /\ user_sessions[user_id].active_case \in DOMAIN cases_db
         /\ Get(cases_db[user_sessions[user_id].active_case], "last_action_type", None)
                = "process_message"
         /\ "last_activity" \in DOMAIN user_sessions[user_id]

\* ------------------------------------------------------------------------
\* C25
\* ------------------------------------------------------------------------

\* C25: creating a Case never overwrites or resets a stored Case: every record
\* stored before a creation is stored unchanged after it, so the new Case has
\* an id of its own.
C25_CreationKeepsStoredCases ==
    [][op' = "create" =>
           \A case_id \in DOMAIN cases_db :
               /\ case_id \in DOMAIN cases_db'
               /\ cases_db'[case_id] = cases_db[case_id]]_vars

\* ------------------------------------------------------------------------
\* C26
\* ------------------------------------------------------------------------

\* C26: no operation of the orchestrator changes the user_id of a stored Case.
C26_UserIdNeverChanges ==
    [][\A case_id \in DOMAIN cases_db :
           /\ case_id \in DOMAIN cases_db'
           /\ SameKey(cases_db'[case_id], cases_db[case_id], "user_id")]_vars

\* ------------------------------------------------------------------------
\* C27
\* ------------------------------------------------------------------------

\* the store holds a Session record of the user
HasSession(store, user_id) ==
    /\ user_id \in DOMAIN store
    /\ TruthyDict(store[user_id])
    /\ Get(store[user_id], "user_id", None) = user_id

\* the request of the thread is an inbound message and is done in this step
MessageHandled(th) == Persists(th) /\ threads[th].kind = "process_message"

\* C27: once the message of a user has been handled the store holds a Session
\* of that user, and no step deletes a stored Session or replaces it by an
\* empty record.
C27_SessionsAreCreatedAndKept ==
    [][/\ \A th \in ThreadIds :
              MessageHandled(th) => HasSession(user_sessions', threads[th].user_id)
       /\ \A user_id \in DOMAIN user_sessions :
              HasSession(user_sessions, user_id) => HasSession(user_sessions', user_id)]_vars

\* the Session of a user whose message ended in an Error is stored, with the
\* stamp of the engine, while the other request is still being handled
C27_Witness ==
    /\ op = "process_message"
    /\ returned.status = "Error"
    /\ HasSession(user_sessions, "+1234567890")
    /\ "last_activity" \in DOMAIN user_sessions["+1234567890"]
    /\ \E th \in ThreadIds : threads[th].pc = "computed"

\* ------------------------------------------------------------------------
\* C28
\* ------------------------------------------------------------------------

\* the returned Case carries the stamps of this invocation
CaseStamped ==
    /\ "last_workflow_run" \in DOMAIN result.updated_case_data
    /\ result.updated_case_data.last_workflow_run = result.workflow_timestamp
    /\ Get(result.updated_case_data, "last_action_type", None) = request.action_type

\* the returned Session carries the stamp of this invocation
SessionStamped ==
    /\ "last_activity" \in DOMAIN result.updated_user_session
    /\ result.updated_user_session.last_activity = result.workflow_timestamp

\* C28 as stated: whatever the action and the outcome, a Case the caller
\* supplied is returned with last_workflow_run and last_action_type written and
\* a Session the caller supplied is returned with last_activity written.
C28_SuppliedSnapshotsAreStamped ==
    Done => /\ current_case_data # NoneDict => CaseStamped
            /\ current_user_session # NoneDict => SessionStamped

\* C28 amended: whatever the action and the outcome, a non-empty Case the
\* caller supplied is returned with last_workflow_run and last_action_type
\* written and a non-empty Session with last_activity written; a dict that
\* is empty when the metadata step runs is returned without stamps.
C28_NonEmptySnapshotsAreStamped ==
    Done => /\ TruthyDict(SuppliedCase) => CaseStamped
            /\ TruthyDict(SuppliedSession) => SessionStamped

\* an invocation with an undefined action_type has stamped both snapshots
C28_Witness ==
    /\ Done
    /\ request.action_type = "advance_production"
    /\ result.status = "Error"
    /\ TruthyDict(SuppliedCase)
    /\ TruthyDict(SuppliedSession)
    /\ result.updated_case_data.last_action_type = "advance_production"
    /\ "last_activity" \in DOMAIN result.updated_user_session

\* ------------------------------------------------------------------------
\* C29
\* ------------------------------------------------------------------------

\* the engine has set the Case to FitIssueReported
FitIssueOnRecord(case) ==
    /\ Get(case, "status", None) = "FitIssueReported"
    /\ "fit_issue_reported_at" \in DOMAIN case

\* C29: once the engine has set a stored Case to FitIssueReported, no engine
\* invocation whose result is persisted changes the status of that Case.
C29_FitIssueReportedIsTerminal ==
    [][EngineInvocationPersisted =>
           \A case_id \in DOMAIN cases_db :
               FitIssueOnRecord(cases_db[case_id]) =>
                   StatusOf(cases_db', case_id) = "FitIssueReported"]_vars

\* start_production was invoked on a Case with a reported fit issue, whose
\* owner is back in the general stage, and the result was persisted
C29_Witness ==
    /\ op = "start_production"
    /\ returned.status = "NoAction"
    /\ \E case_id \in DOMAIN cases_db :
         /\ FitIssueOnRecord(cases_db[case_id])
         /\ cases_db[case_id].last_action_type = "start_production"
         /\ user_sessions[cases_db[case_id].user_id].current_stage = "general"

\* ------------------------------------------------------------------------
\* C30
\* ------------------------------------------------------------------------

\* the full_workflow scenario has this many steps to do and does the next one
FullWorkflowAt(n) ==
    /\ script # NoScript
    /\ script' # script
    /\ Len(script.steps) = n
    /\ cases_db[script.case_id].patient_name = ScenarioPatient.full_workflow

\* the status of the scenario's Case before each step of full_workflow, by the
\* number of steps still to do, and after it
HappyBefore ==
    <<"AwaitingFitConfirmation", "AwaitingFitConfirmation", "AwaitingDelivery",
      "AwaitingDelivery", "CasePlanningComplete", "CasePlanningComplete",
      "ApprovedForProduction">>

HappyAfter(n, choice) ==
    IF n = 1 THEN choice ELSE HappyBefore[n - 1]

\* the stage of the scenario's user after the steps that set it
HappyStageAfter ==
    <<"general", "awaiting_dispatch_choice", "awaiting_fit_confirmation",
      "awaiting_delivery">>

\* the oracle classified the message of the step as the happy path has it
ClassifiedHappily(n, label) ==
    IF n = 2 THEN returned'.oracle = LlmSays(TxtYes)
    ELSE IF n = 1
    THEN /\ user_sessions[ScenarioUser].current_stage = "awaiting_dispatch_choice"
         /\ returned'.oracle = LlmSays(label)
    ELSE TRUE

\* the step of full_workflow with n steps to do takes the Case from the status
\* the path has before it to the status the path has after it
HappyStep(n, label, choice) ==
    (FullWorkflowAt(n) /\ ClassifiedHappily(n, label)) =>
        /\ StatusOf(cases_db, script.case_id) = HappyBefore[n]
        /\ StatusOf(cases_db', script.case_id) = HappyAfter(n, choice)
        /\ n <= 4 => user_sessions'[ScenarioUser].current_stage = HappyStageAfter[n]

\* a start_production on a Case in the status of the choice dispatches it
FurtherStart(choice, dispatching) ==
    \A case_id \in DOMAIN cases_db :
        (/\ op' = "start_production"
         /\ StatusOf(cases_db, case_id) = choice
         /\ cases_db'[case_id] # cases_db[case_id]) =>
            StatusOf(cases_db', case_id) = dispatching

\* C30: under serial invocation with persistence the full_workflow path takes
\* a Case through ApprovedForProduction, CasePlanningComplete,
\* AwaitingDelivery, AwaitingFitConfirmation and, with the messages classified
\* Yes and FullCase (PhaseWise), FitConfirmed_FullCase (FitConfirmed_PhaseWise)
\* in this order, one status per transition, ending with the Session in
\* general; one further start_production makes it Dispatching_FullCase
\* (Dispatching_PhaseWise).
C30_HappyPathOrder ==
    [][/\ \A n \in 1..7 :
              /\ HappyStep(n, TxtFullCase, "FitConfirmed_FullCase")
              /\ HappyStep(n, TxtPhaseWise, "FitConfirmed_PhaseWise")
       /\ FurtherStart("FitConfirmed_FullCase", "Dispatching_FullCase")
       /\ FurtherStart("FitConfirmed_PhaseWise", "Dispatching_PhaseWise")]_vars

\* the Case of full_workflow after the whole path and the further
\* start_production
C30_Witness ==
    /\ script = NoScript
    /\ op = "start_production"
    /\ returned.status = "Success"
    /\ user_sessions[ScenarioUser].current_stage = "general"
    /\ \E case_id \in DOMAIN cases_db :
         /\ cases_db[case_id].patient_name = ScenarioPatient.full_workflow
         /\ cases_db[case_id].status = "Dispatching_FullCase"
         /\ {"planning_started_at", "dispatched_at", "full_production_started"}
                \subseteq DOMAIN cases_db[case_id]
         /\ cases_db[case_id].delivery_status = kw_delivered

\* ------------------------------------------------------------------------
\* C31
\* ------------------------------------------------------------------------

\* the user a message of the invocation is meant for
ExpectedRecipient ==
    IF request.action_type = "start_production"
    THEN Get(SuppliedCase, "user_id", None)
    ELSE request.user_id

\* C31: an invocation that returns Success returns exactly one message, whose
\* recipient is the Case's user_id under start_production and the user_id
\* argument under process_message; one that returns Error or NoAction
\* returns no message.
C31_OneMessageIffSuccess ==
    Done =>
        /\ result.status = "Success" =>
              /\ Len(result.messages_to_send) = 1
              /\ result.messages_to_send[1].recipient_id = ExpectedRecipient
        /\ result.status \in {"Error", "NoAction"} => result.messages_to_send = <<>>

\* a message about another user's Case is answered to the sender
C31_Witness ==
    /\ IsMessage
    /\ result.status = "Success"
    /\ InStage("awaiting_delivery")
    /\ "user_id" \in DOMAIN SuppliedCase
    /\ SuppliedCase.user_id # request.user_id
    /\ Len(result.messages_to_send) = 1
    /\ result.messages_to_send[1].recipient_id = request.user_id

\* ------------------------------------------------------------------------
\* C32
\* ------------------------------------------------------------------------

NothingDone == Done /\ result.status \in {"Error", "NoAction"}

\* C32: when the result is Error or NoAction the returned Case and Session
\* differ from the supplied snapshots in at most last_workflow_run,
\* last_action_type and last_activity: no status, stage or other key is
\* written by an invocation that does not succeed.
C32_FailureWritesOnlyAuditStamps ==
    NothingDone =>
        /\ SameButAudit(result.updated_case_data, SuppliedCase)
        /\ SameButAudit(result.updated_user_session, SuppliedSession)

\* the oracle failed in a stage whose branches write the status and the stage
C32_Witness ==
    /\ NothingDone
    /\ IsMessage
    /\ result.status = "Error"
    /\ llm_reply = LlmRaises
    /\ InStage("awaiting_dispatch_choice")
    /\ ~IsEmpty(SuppliedCase)
    /\ "last_action_type" \in DOMAIN result.updated_case_data
    /\ "last_activity" \in DOMAIN result.updated_user_session

\* ------------------------------------------------------------------------
\* C33
\* ------------------------------------------------------------------------

\* the stage a Session dict records, if it records one
StageOf(session) == Get(session, "current_stage", "<no stage>")

StageEdges ==
    {<<"awaiting_delivery", "awaiting_fit_confirmation">>,
     <<"awaiting_fit_confirmation", "awaiting_dispatch_choice">>,
     <<"awaiting_fit_confirmation", "general">>,
     <<"awaiting_dispatch_choice", "general">>}

\* C33: the engine changes Session.current_stage only under process_message
\* and only along awaiting_delivery -> awaiting_fit_confirmation,
\* awaiting_fit_confirmation -> awaiting_dispatch_choice,
\* awaiting_fit_confirmation -> general and awaiting_dispatch_choice ->
\* general; so it never leaves general and never enters awaiting_delivery.
C33_StageMovesAlongEdges ==
    Done =>
        LET old == StageOf(SuppliedSession)
            new == StageOf(result.updated_user_session)
        IN  /\ old # new => IsMessage /\ <<old, new>> \in StageEdges
            /\ old = "general" => new = "general"
            /\ new = "awaiting_delivery" => old = "awaiting_delivery"

\* the fit issue took the Session from awaiting_fit_confirmation to general
C33_Witness ==
    /\ IsMessage
    /\ result.status = "Success"
    /\ StageOf(SuppliedSession) = "awaiting_fit_confirmation"
    /\ StageOf(result.updated_user_session) = "general"
    /\ llm_reply = LlmSays(TxtNo)

\* ------------------------------------------------------------------------
\* C34
\* ------------------------------------------------------------------------

\* C34: no invocation changes Session.active_case, and after start_production
\* the returned Session equals the supplied one apart from last_activity,
\* whatever happened to the Case.
C34_StartProductionLeavesSession ==
    Done =>
        /\ SameKey(result.updated_user_session, SuppliedSession, "active_case")
        /\ IsStart => SameBut(result.updated_user_session, SuppliedSession,
                              {"last_activity"})

\* the Case went to AwaitingDelivery while its user's Session stayed in
\* general
C34_Witness ==
    /\ IsStart
    /\ result.status = "Success"
    /\ Get(SuppliedCase, "status", None) = "CasePlanningComplete"
    /\ Get(result.updated_case_data, "status", None) = "AwaitingDelivery"
    /\ StageOf(SuppliedSession) = "general"
    /\ StageOf(result.updated_user_session) = "general"
    /\ Get(SuppliedSession, "active_case", None) = TheCaseId
    /\ "last_activity" \in DOMAIN result.updated_user_session

\* ------------------------------------------------------------------------
\* C35
\* ------------------------------------------------------------------------

\* the number of start_production calls that still succeed on a Case
StepsLeft(case) ==
    CASE Get(case, "status", None) = "ApprovedForProduction" -> 2
      [] Get(case, "status", None) \in
             {"CasePlanningComplete", "FitConfirmed_PhaseWise", "FitConfirmed_FullCase"} -> 1
      [] OTHER -> 0

\* the waiting states start_production stops in
WaitingStatuses == {"AwaitingDelivery", "Dispatching_PhaseWise", "Dispatching_FullCase"}

\* C35: start_production repeated on a stored Case, each result persisted,
\* succeeds at most twice from any starting status: every Success takes one
\* from the number of steps left, which is 2 at most, and lands at the latest
\* in AwaitingDelivery or Dispatching_*; with no step left the call returns
\* NoAction and changes nothing but the audit stamps.
C35_ProductionStopsAfterTwoSteps ==
    [][\A th \in ThreadIds :
          (Persists(th) /\ threads[th].kind = "start_production") =>
              LET before == cases_db[threads[th].case_id]
                  after == cases_db'[threads[th].case_id]
              IN  /\ returned'.status \in {"Success", "NoAction"}
                  /\ returned'.status = "Success" =>
                        /\ StepsLeft(before) > 0
                        /\ StepsLeft(after) = StepsLeft(before) - 1
                        /\ StepsLeft(after) = 0 => after.status \in WaitingStatuses
                  /\ StepsLeft(before) = 0 =>
                        /\ returned'.status = "NoAction"
                        /\ SameButAudit(after, before)]_vars

\* a Case created in ApprovedForProduction after two successes and a third
\* call
C35_Witness ==
    /\ op = "start_production"
    /\ returned.status = "NoAction"
    /\ TheCaseId \in DOMAIN cases_db
    /\ cases_db[TheCaseId].status = "AwaitingDelivery"
    /\ {"planning_started_at", "dispatched_at"} \subseteq DOMAIN cases_db[TheCaseId]
    /\ cases_db[TheCaseId].last_action_type = "start_production"

\* ------------------------------------------------------------------------
\* C36
\* ------------------------------------------------------------------------

\* the recipient has a stored Session whose last message is at most 86400
\* seconds before now
InWindow(sessions, recipient, now) ==
    /\ recipient \in DOMAIN sessions
    /\ "last_message_time" \in DOMAIN sessions[recipient]
    /\ now - sessions[recipient].last_message_time <= 86400

\* the messages of the request that were posted
PostedOf(messages_to_send, posted) ==
    {i \in 1..Len(messages_to_send) : \E j \in 1..Len(posted) : posted[j] = messages_to_send[i]}

\* C36: a message is transmitted only to a recipient with a stored Session
\* whose last_message_time is at most 86400 seconds before now; the
\* notification of a start_production for any other recipient is dropped,
\* and the Case the engine returned is stored all the same.
C36_NotificationNeedsOpenWindow ==
    [][\A th \in ThreadIds :
          (Persists(th) /\ threads[th].kind = "start_production") =>
              LET r == threads[th].result
              IN  /\ Len(returned'.posted) <= Len(r.messages_to_send)
                  /\ \A i \in 1..Len(r.messages_to_send) :
                        i \in PostedOf(r.messages_to_send, returned'.posted) =>
                            InWindow(user_sessions, r.messages_to_send[i].recipient_id, clock)
                  /\ r.status = "Success" =>
                        cases_db'[threads[th].case_id] = r.updated_case_data]_vars

\* the owner wrote more than a day ago: the Case moved on and nothing was posted
C36_Witness ==
    /\ op = "start_production"
    /\ returned.status = "Success"
    /\ returned.posted = <<>>
    /\ cases_db[TheCaseId].status = "CasePlanningComplete"
    /\ "planning_started_at" \in DOMAIN cases_db[TheCaseId]
    /\ cases_db[TheCaseId].user_id \in DOMAIN user_sessions
    /\ clock - user_sessions[cases_db[TheCaseId].user_id].last_message_time > 86400

\* ------------------------------------------------------------------------
\* C37
\* ------------------------------------------------------------------------

\* the stage Firebase holds for the user of the router
RouterStage(sessions) ==
    IF RouterUser \in DOMAIN sessions THEN sessions[RouterUser].current_stage
    ELSE "<no session>"

\* a message is handled in a stage and the function gets to update_db
Handled(stage) ==
    /\ op' = "whatsapp"
    /\ RouterStage(user_sessions) = stage
    /\ ~llm_reply'.raises

\* the confirmation chain answers a message of a Session that was asked a
\* question
ConfirmAnswered ==
    /\ Handled("scheduling_quote_confirm")
    /\ "last_question" \in DOMAIN user_sessions[RouterUser]

\* C37: in scheduling_quote_confirm, an answer of Unknown in any letter case,
\* or one that matches neither Yes nor No, keeps the Session in
\* scheduling_quote_confirm; the Session moves to end_session only for the
\* label No and to fetching_name only for the label Yes.
C37_UnknownKeepsConfirmStage ==
    [][ConfirmAnswered =>
          LET answer == Lower(llm_reply'.text)
              unmatched == ~Contains(answer, kw_yes) /\ ~Contains(answer, kw_no)
          IN  /\ (answer = Lower(TxtUnknown) \/ unmatched) =>
                    RouterStage(user_sessions') = "scheduling_quote_confirm"
              /\ RouterStage(user_sessions') = "end_session" => answer = kw_no
              /\ RouterStage(user_sessions') = "fetching_name" => answer = kw_yes]_vars

\* ------------------------------------------------------------------------
\* C38
\* ------------------------------------------------------------------------

\* a message is handled in awaiting_images
ImagesHandled ==
    /\ op' = "whatsapp"
    /\ RouterStage(user_sessions) = "awaiting_images"

\* the message says DONE in some letter case
SaysDone(req) == Lower(req.message_body) = kw_done

\* C38: a message handled in awaiting_images either leaves the stage, and
\* then it said DONE while image_count was above 0, the stage is
\* awaiting_quote and image_count is 0; or it keeps the stage and adds to
\* image_count the number of its media that were forwarded, none for a
\* message without media. DONE with image_count 0 keeps the stage.
C38_ImagesCountedAndDoneLeaves ==
    [][ImagesHandled =>
          LET before == user_sessions[RouterUser]
              after == user_sessions'[RouterUser]
              leaves == after.current_stage # "awaiting_images"
          IN  /\ leaves => /\ after.current_stage = "awaiting_quote"
                           /\ after.image_count = 0
                           /\ SaysDone(request')
                           /\ before.image_count > 0
              /\ ~leaves => after.image_count = before.image_count + request'.forwarded
              /\ request'.num_media = 0 => request'.forwarded = 0
              /\ (SaysDone(request') /\ request'.num_media = 0 /\ before.image_count > 0)
                    => leaves
              /\ (SaysDone(request') /\ before.image_count = 0) => ~leaves]_vars

\* a message with two media, one of them forwarded, has been counted
C38_Witness ==
    /\ op = "whatsapp"
    /\ llm_reply = NotConsulted
    /\ RouterStage(user_sessions) = "awaiting_images"
    /\ request.num_media = 2
    /\ request.forwarded = 1
    /\ user_sessions[RouterUser].image_count = 2

\* ------------------------------------------------------------------------
\* C39
\* ------------------------------------------------------------------------

\* C39: end_session is absorbing: no step moves the stored stage of a user
\* away from end_session; and one message handled in tracking_case leaves the
\* stored stage at end_session.
C39_EndSessionIsAbsorbing ==
    [][/\ RouterStage(user_sessions) = "end_session" =>
             RouterStage(user_sessions') = "end_session"
       /\ (op' = "whatsapp" /\ RouterStage(user_sessions) = "tracking_case") =>
             RouterStage(user_sessions') = "end_session"]_vars

\* a message of a user whose question was answered has been handled and the
\* stored stage is end_session
C39_Witness ==
    /\ op = "whatsapp"
    /\ llm_reply = NotConsulted
    /\ RouterStage(user_sessions) = "end_session"
    /\ "last_question" \notin DOMAIN user_sessions[RouterUser]
    /\ request.message_body = TxtHello

====
